---- MODULE Spec2Model ----
(***************************************************************************)
(* Turn-resolution state machine of the travel agent: the context merger   *)
(* (utils/__init__.py), the session store (utils/cache_client.py), the     *)
(* orchestrator's router, handlers' contract and continuation planner      *)
(* (core/agents/orchestrator.py) and the caller-facing event stream        *)
(* (api/routes/chat.py).                                                   *)
(***************************************************************************)
EXTENDS Integers, Sequences, FiniteSets, TLC

(***************************************************************************)
(* Python values.  A value is a tagged record; the tag is the field name,  *)
(* so values of different types are never equal.  A dict's content is a    *)
(* function from key strings to values.                                    *)
(***************************************************************************)
None == [none |-> TRUE]
Str(s) == [str |-> s]
List(q) == [list |-> q]
Dict(f) == [dict |-> f]

IsNone(v) == "none" \in DOMAIN v
IsStr(v) == "str" \in DOMAIN v
IsList(v) == "list" \in DOMAIN v
IsDict(v) == "dict" \in DOMAIN v

EmptyMap == [k \in {} |-> None]
EmptyStr == Str("")
EmptyList == List(<<>>)
EmptyDict == Dict(EmptyMap)

\* bool(v): None, '', [] and {} are false, everything else is true
Truthy(v) ==
    IF IsNone(v) THEN FALSE
    ELSE IF IsStr(v) THEN v.str # ""
    ELSE IF IsList(v) THEN v.list # <<>>
    ELSE DOMAIN v.dict # {}

\* result[k] = v
SetKey(m, k, v) == [x \in DOMAIN m \cup {k} |-> IF x = k THEN v ELSE m[x]]

\* d.get(k): None when the key is absent
Get(m, k) == IF k \in DOMAIN m THEN m[k] ELSE None

RECURSIVE update_dict(_, _)
RECURSIVE UpdateLoop(_, _, _)

\* one iteration with the truthiness test replaced by `is not None`
UpdateItemNotNone(result, k, v) ==
    IF IsDict(v) /\ k \in DOMAIN result /\ IsDict(result[k])
    THEN SetKey(result, k, Dict(update_dict(result[k].dict, v.dict)))
    ELSE IF ~IsNone(v) THEN SetKey(result, k, v)
    ELSE result

\* one iteration that never recurses: a non-empty overlay value always wins
UpdateItemNoRecurse(result, k, v) ==
    IF Truthy(v) THEN SetKey(result, k, v) ELSE result

\* one iteration of `for k, v in d2.items()`
UpdateItem(result, k, v) ==
    IF IsDict(v) /\ k \in DOMAIN result /\ IsDict(result[k])
    THEN SetKey(result, k, Dict(update_dict(result[k].dict, v.dict)))
    ELSE IF Truthy(v) THEN SetKey(result, k, v)
    ELSE result

\* the loop over d2's items; the keys are distinct, each iteration touches
\* result[k] only
UpdateLoop(result, d2, keys) ==
    IF keys = {} THEN result
    ELSE LET k == CHOOSE x \in keys : TRUE
         IN UpdateLoop(UpdateItem(result, k, d2[k]), d2, keys \ {k})

\* update_dict starting from an empty result instead of d1.copy()
update_dict_NoCopy(d1, d2) == UpdateLoop(EmptyMap, d2, DOMAIN d2)

update_dict(d1, d2) == UpdateLoop(d1, d2, DOMAIN d2)

\* the two objects after a call: every item assignment of the loop goes to
\* `result`, the copy made at line 5; the object passed as d1 is not written
update_dict_call(d1, d2) == [result |-> update_dict(d1, d2), d1 |-> d1]

VARIABLES
    m,                    \* harness of the context merger: inputs and results
    search,               \* one SearchAgent: process, its tasks, its semaphores
    recommendation,       \* direct calls of RecommendationAgent.process
    calendar,             \* the one CalendarAgent: its fields, calls in flight
    mail,                 \* one direct call of MailAgent.process
    cache,                \* callers of cache_client outside a turn: their calls
    store,                \* cache_client's table: session -> kind -> events
    conversation_history, \* chat.py's per-process session map
    req,                  \* the request of the running turn
    pc,                   \* the workflow node to run next
    state,                \* the AgentState of the running turn
    events,               \* chunks yielded by process_stream in this turn
    consumed,             \* number of chunks stream_response has handled
    sse,                  \* frames yielded by stream_response in this turn
    oracle,               \* calls of the orchestrator's llm in this turn
    dispatched,           \* process_search_and_mail.delay calls (task queue)
    router,               \* what _analyze_intent read and decided in this turn
    inserted,             \* events inserted into Google Calendar
    turn,                 \* number of turns started
    last                  \* how the turn before the running one ended

vars == <<m, search, recommendation, calendar, mail, cache, store, conversation_history, req, pc, state, events, consumed,
          sse, oracle, dispatched, router, inserted, turn, last>>

(***************************************************************************)
(* Bounds of the model.                                                    *)
(***************************************************************************)
\* turns per behaviour
MaxTurns == 2
\* nesting depth of the mappings given to the merger
MaxDepth == 1
\* chunks an arbitrary producer hands to stream_response
MaxChunks == 3
\* calls of cache_client made by its direct callers
MaxCalls == 3
\* streams served against an arbitrary producer
MaxStreams == 1
\* locations the intent analysis of SearchAgent.process fans out over
MaxLocations == 4
\* direct calls of one handler's process (recommendation, calendar)
MaxInvocations == 4

Sessions == {"s1"}

(***************************************************************************)
(* The session store (cache_client).  An event is kept by its payload; the *)
(* timestamp added by add_message is not read anywhere.                    *)
(***************************************************************************)
\* get_conversation_history: the item's `messages`, {} when there is none
get_conversation_history(tbl, sid) == tbl[sid]

\* session_data.get(kind) is truthy: the kind is present with some event
HasKind(session_data, kind) ==
    kind \in DOMAIN session_data /\ session_data[kind] # <<>>

\* session_data[kind][-1]["data"]
LastData(session_data, kind) == session_data[kind][Len(session_data[kind])]

\* add_message that overwrites the kind's list with the new event alone
add_message_Overwrite(tbl, sid, kind, data) ==
    [tbl EXCEPT ![sid] = SetKey(tbl[sid], kind, <<data>>)]

\* add_message: read the item, append to the kind's list, put the item
add_message(tbl, sid, kind, data) ==
    LET current_messages == get_conversation_history(tbl, sid)
        old == IF kind \in DOMAIN current_messages
               THEN current_messages[kind] ELSE <<>>
    IN [tbl EXCEPT ![sid] = SetKey(current_messages, kind, Append(old, data))]

\* a clear that deletes every session's item
clear_conversation_All(tbl, sid) == [s \in DOMAIN tbl |-> EmptyMap]

\* clear_conversation: delete the item
clear_conversation(tbl, sid) == [tbl EXCEPT ![sid] = EmptyMap]

\* get_conversation_history without its except branch: the failure leaves
GetCallNoExcept(tbl, sid, ok) ==
    [raised |-> ~ok,
     value |-> IF ok THEN get_conversation_history(tbl, sid) ELSE EmptyMap]

\* get_conversation_history (lines 28-37) against a table whose get_item
\* answers (ok) or raises: the except branch returns {}
GetCall(tbl, sid, ok) ==
    [raised |-> FALSE,
     value |-> IF ok THEN get_conversation_history(tbl, sid) ELSE EmptyMap]

\* add_message, lines 46-55: the item to put, built from the snapshot read
NewItem(current_messages, kind, data) ==
    LET old == IF kind \in DOMAIN current_messages
               THEN current_messages[kind] ELSE <<>>
    IN SetKey(current_messages, kind, Append(old, data))

\* add_message, lines 58-66: put_item replaces the session's item, or raises
\* and the except branch prints
PutCall(tbl, sid, item, ok) ==
    [raised |-> FALSE,
     table |-> IF ok THEN [tbl EXCEPT ![sid] = item] ELSE tbl]

\* clear_conversation (lines 68-73) against a table whose delete_item
\* answers or raises
ClearCall(tbl, sid, ok) ==
    [raised |-> FALSE,
     table |-> IF ok THEN clear_conversation(tbl, sid) ELSE tbl]

\* the processes that share the table
Procs == {"p1", "p2"}

\* no call was made
NoCall ==
    [op |-> "none", id |-> 0, sid |-> "None", kind |-> "None",
     read_ok |-> TRUE, write_ok |-> TRUE, raised |-> FALSE,
     returned |-> EmptyMap, overlap |-> {}, absent |-> TRUE]

\* a process between two calls
NoProc ==
    [pc |-> "idle", id |-> 0, sid |-> "None", kind |-> "None",
     current_messages |-> EmptyMap, read_ok |-> TRUE, overlap |-> {},
     last |-> NoCall]

NoCache == [proc |-> [p \in Procs |-> NoProc], calls |-> 0]

(***************************************************************************)
(* Messages.  A message is a string; what the code asks of it ("@" in msg, *)
(* "." in msg, msg.lower()) is tabulated over the messages of the model.   *)
(***************************************************************************)
Messages == {"", "plan a trip", "user@example.com", "yes", "done"}
HasAt(msg) == msg \in {"user@example.com"}
\* a test for "." that no message passes
HasDotNever(msg) == FALSE

HasDot(msg) == msg \in {"user@example.com"}

(***************************************************************************)
(* The router's field names.  field.split(".") is tabulated.               *)
(***************************************************************************)
Dotted == {"preferences.budget"}
DotSplit == [f \in Dotted |-> <<"preferences", "budget">>]

\* `child in context[parent]`: a key of a mapping; no string or list of the
\* model holds a field name
Contains(v, child) == IF IsDict(v) THEN child \in DOMAIN v.dict ELSE FALSE

\* is_field_in_context with a truthiness test instead of `is not None`
is_field_in_context_Truthy(field, context) ==
    IF field \in Dotted
    THEN LET parent == DotSplit[field][1]
             child == DotSplit[field][2]
         IN /\ parent \in DOMAIN context
            /\ Truthy(context[parent])
            /\ Contains(context[parent], child)
            /\ Truthy(context[parent].dict[child])
    ELSE field \in DOMAIN context /\ Truthy(context[field])

\* is_field_in_context (nested in _analyze_intent)
is_field_in_context(field, context) ==
    IF field \in Dotted
    THEN LET parent == DotSplit[field][1]
             child == DotSplit[field][2]
         IN /\ parent \in DOMAIN context
            /\ ~IsNone(context[parent])
            /\ Contains(context[parent], child)
    ELSE field \in DOMAIN context /\ ~IsNone(context[field])

\* in neither the current context nor the extracted context
StillMissing(field, current_context, extracted_context) ==
    ~(\/ is_field_in_context(field, current_context)
      \/ is_field_in_context(field, extracted_context))

\* reconciliation that looks at the current context only
ReconcileCurrentOnly(missing_fields, current_context, extracted_context) ==
    SelectSeq(missing_fields,
              LAMBDA f : ~is_field_in_context(f, current_context))

\* intent_analysis["missing_info"]["fields"] after the reconciliation
Reconcile(missing_fields, current_context, extracted_context) ==
    SelectSeq(missing_fields,
              LAMBDA f : StillMissing(f, current_context, extracted_context))

PlannerPreferences ==
    ("budget" :> None) @@ ("activities" :> EmptyList) @@
    ("accommodation" :> None) @@ ("transportation" :> None)

RecommendationInfo ==
    ("travel_style" :> None) @@ ("activities" :> EmptyList) @@
    ("budget" :> None) @@ ("accommodation" :> None) @@
    ("transportation" :> None)

\* required_context.get(primary_intent, {})
required_context(primary_intent) ==
    CASE primary_intent = "search" ->
            ("query" :> None) @@ ("location" :> None) @@ ("type" :> None)
      [] primary_intent = "planner" ->
            ("departure_location" :> None) @@ ("departure_date" :> None) @@
            ("destination" :> None) @@ ("duration" :> None) @@
            ("preferences" :> Dict(PlannerPreferences))
      [] primary_intent = "calendar" ->
            ("event_details" :>
                Dict(("title" :> None) @@ ("start_date" :> None) @@
                     ("end_date" :> None) @@ ("location" :> None) @@
                     ("description" :> None)))
      [] primary_intent = "recommendation" ->
            ("recommendation_step" :> None) @@
            ("collected_info" :> Dict(RecommendationInfo))
      [] OTHER -> EmptyMap

\* one iteration of `for field, value in extracted_context.items()`
ExtractItem(target_context, field, value) ==
    IF field \in Dotted
    THEN LET parent == DotSplit[field][1]
             child == DotSplit[field][2]
             t1 == IF parent \notin DOMAIN target_context
                   THEN SetKey(target_context, parent, EmptyDict)
                   ELSE target_context
         IN IF ~IsNone(value)
            THEN SetKey(t1, parent, Dict(SetKey(t1[parent].dict, child, value)))
            ELSE t1
    ELSE IF ~IsNone(value) THEN SetKey(target_context, field, value)
         ELSE target_context

RECURSIVE ExtractLoop(_, _, _)
ExtractLoop(target_context, extracted_context, keys) ==
    IF keys = {} THEN target_context
    ELSE LET k == CHOOSE x \in keys : TRUE
         IN ExtractLoop(ExtractItem(target_context, k, extracted_context[k]),
                        extracted_context, keys \ {k})

\* target_context after lines 397-415: the handler's template overlaid with
\* the extracted values that are not None
TargetContext(primary_intent, extracted_context) ==
    ExtractLoop(required_context(primary_intent), extracted_context,
                DOMAIN extracted_context)

(***************************************************************************)
(* Results, chunks and frames.                                             *)
(***************************************************************************)
Agents == {"search", "planner", "calendar", "mail", "recommendation"}

\* a result dict: its status, who built it, its missing_fields, whether it
\* has a current_context key (and the value), whether it carries a plan,
\* whether json.dumps accepts it
Result(status, origin, missing_fields, has_context, current_context, plan) ==
    [status |-> status, origin |-> origin, missing_fields |-> missing_fields,
     has_context |-> has_context, current_context |-> current_context,
     plan |-> plan, json |-> TRUE]

\* state["result"] is None or was never set
NoResult == Result("none", "none", <<>>, FALSE, None, FALSE)

HandlerResult(status, agent) == Result(status, agent, <<>>, FALSE, None, FALSE)

\* a chunk yielded by process_stream
Chunk(status, result, output_message) ==
    [status |-> status, result |-> result, output_message |-> output_message]

\* a frame yielded by stream_response
Frame(event, data) == [event |-> event, data |-> data]
CompleteFrame == Frame("complete", "{}")
ErrorFrame == Frame("error", "error+stacktrace")

\* a fallback list that leaves `preferences` out
FallbackFieldsNoPreferences ==
    <<"departure_location", "departure_date", "destination", "duration">>

\* the fallback missing-fields of the JSONDecodeError branch
FallbackFields ==
    <<"departure_location", "departure_date", "destination", "duration",
      "preferences">>

(***************************************************************************)
(* The turn's AgentState.  messages is kept by its last message.           *)
(***************************************************************************)
AgentState(msg, sid, context) ==
    [msg |-> msg, current_agent |-> "None", context |-> context,
     result |-> NoResult, workflow_history |-> <<>>, next_steps |-> <<>>,
     session_id |-> sid]

NoState == AgentState("", "None", EmptyDict)
NoRoute ==
    [branch |-> "none", current_context |-> EmptyMap,
     extracted_context |-> EmptyMap, missing_fields |-> <<>>,
     reconciled |-> <<>>, primary_intent |-> "None"]
NoRequest ==
    [entry |-> "none", message |-> "", session_id |-> "None",
     has_session_id |-> FALSE, context |-> EmptyDict]

\* the chunk process_stream yields for a node's output (lines 642-708)
NodeChunks(current_node, current_state) ==
    IF current_node = "analyze_intent"
    THEN IF current_state.result.status = "need_more_info"
         THEN <<Chunk("need_more_info", current_state.result, FALSE)>>
         ELSE <<>>
    ELSE IF current_state.result # NoResult
    THEN IF current_state.result.status = "processing"
         THEN <<Chunk("processing", current_state.result,
                      current_node \in {"planner", "search"})>>
         ELSE IF current_state.result.status # "need_more_info"
         THEN <<Chunk("success", current_state.result, FALSE)>>
         ELSE <<Chunk("need_more_info", current_state.result, FALSE)>>
    ELSE IF current_state.current_agent # "None"
    THEN <<Chunk("processing", current_state.result,
                 current_state.current_agent \in {"planner", "search"})>>
    ELSE <<>>

\* process_stream is suspended at a yield until stream_response has handled
\* the chunk
Resumed == req.entry # "api" \/ consumed = Len(events)

(***************************************************************************)
(* The classification oracle's replies to the router's prompt.  A reply    *)
(* raises, is not JSON, or is a decision of the prompt's schema.           *)
(***************************************************************************)
ExtractedChoices ==
    { EmptyMap,
      ("destination" :> Str("Busan")) @@ ("duration" :> Str("3 days")),
      ("departure_date" :> Str("2025-05-01")),
      ("destination" :> None) @@ ("departure_date" :> EmptyStr),
      ("preferences.budget" :> Str("200000")),
      ("preferences" :> Dict(("budget" :> Str("200000")))) }

MissingChoices ==
    { <<>>,
      <<"departure_date">>,
      <<"destination", "departure_date">>,
      <<"preferences.budget">>,
      <<"departure_date", "preferences.budget">> }

IntentChoices == {"planner", "recommendation", "chitchat"}

\* suggested_next_steps: one list with a repeated and an unknown name; the
\* continuation step overwrites next_steps before anything reads it
SuggestedChoices == { <<"search", "search", "bogus">> }

\* the decision's confidence, a number between 0.0 and 1.0
Confidences == {"0.3", "0.9"}

RouterReply(kind, intent, extracted, missing, suggested, confidence) ==
    [kind |-> kind, primary_intent |-> intent, extracted_context |-> extracted,
     missing_fields |-> missing, suggested_next_steps |-> suggested,
     confidence |-> confidence]

RouterReplies ==
    { RouterReply("raise", "None", EmptyMap, <<>>, <<>>, "0.9"),
      RouterReply("not_json", "None", EmptyMap, <<>>, <<>>, "0.9") }
    \cup { RouterReply("json", i, e, f, n, c) :
             i \in IntentChoices, e \in ExtractedChoices,
             f \in MissingChoices, n \in SuggestedChoices,
             c \in Confidences }

\* the missing_fields put in the router's need_more_info result (line 435):
\* the list bound at line 337, before the reconciliation rebinds
\* intent_analysis["missing_info"]["fields"]
EmittedMissing(missing_fields, reconciled) == missing_fields

\* _get_next_node, then the conditional edge's mapping (lines 125-136); a
\* name outside the mapping is a fault of the graph
RouteAfterIntent(st) ==
    LET name == IF st.result # NoResult /\ st.result.status = "need_more_info"
                THEN "determine_next_steps"
                ELSE IF st.current_agent # "None" THEN st.current_agent
                ELSE "determine_next_steps"
    IN IF name \in Agents \cup {"determine_next_steps"} THEN name ELSE "fault"

\* lines 178-205: the message looks like an address and the session has a plan
EmailCapture(session_data, msg) ==
    IF ~("context" \in DOMAIN session_data)
    THEN \* session_data["context"]: KeyError
         /\ pc' = "fault"
         /\ router' = [NoRoute EXCEPT !.branch = "capture"]
         /\ UNCHANGED <<store, state, events, oracle, dispatched>>
    ELSE \* the task is queued; building the `email` event reads the unbound
         \* name `email` (line 203): NameError after result and next_steps
         \* were set, before add_message is called
         /\ dispatched' = Append(dispatched,
                [email |-> msg,
                 context |-> LastData(session_data, "context"),
                 plan |-> LastData(session_data, "plan")])
         /\ state' = [state EXCEPT
                !.result = Result("need_more_info", "router",
                                  <<"calendar_confirm">>, TRUE,
                                  state.context, FALSE),
                !.next_steps = <<"analyze_intent">>]
         /\ pc' = "fault"
         /\ router' = [NoRoute EXCEPT !.branch = "capture"]
         /\ UNCHANGED <<store, events, oracle>>

\* lines 214-218: the session has an email event and a plan event
CalendarReply(msg, current_context) ==
    LET st == [state EXCEPT !.current_agent = "calendar",
                            !.context = Str(msg)]
    IN /\ state' = st
       /\ events' = events \o NodeChunks("analyze_intent", st)
       /\ pc' = RouteAfterIntent(st)
       /\ router' = [NoRoute EXCEPT !.branch = "calendar",
                                    !.current_context = current_context]
       /\ UNCHANGED <<store, oracle, dispatched>>

\* a branch test that sends a decision of low confidence back to the user
RouterBranchByConfidence(reply, reconciled) ==
    IF reply.confidence = "0.3" THEN "need_more_info"
    ELSE IF reply.primary_intent = "recommendation" THEN "recommendation"
    ELSE IF reconciled # <<>> THEN "need_more_info"
    ELSE "invoke"

\* the branch a parsed decision takes (lines 417, 425 and 441)
RouterBranch(reply, reconciled) ==
    IF reply.primary_intent = "recommendation" THEN "recommendation"
    ELSE IF reconciled # <<>> THEN "need_more_info"
    ELSE "invoke"

\* intent_analysis["missing_info"]["fields"] after lines 336-356
Reconciled(reply, current_context) ==
    IF reply.missing_fields # <<>>
    THEN Reconcile(reply.missing_fields, current_context,
                   reply.extracted_context)
    ELSE <<>>

\* lines 329-471 as a function of the oracle's reply: whether the call
\* raised, the state returned and the table after the appends
ClassifyOutcome(reply, sid, current_context, st0, tbl) ==
    IF reply.kind = "raise"
    THEN \* llm.ainvoke is awaited outside the try block (line 329)
         [raised |-> TRUE, state |-> st0, store |-> tbl]
    ELSE IF reply.kind = "not_json"
    THEN [raised |-> FALSE,
          state |-> [st0 EXCEPT
                       !.result = Result("need_more_info", "router",
                                         FallbackFields, TRUE, st0.context,
                                         FALSE),
                       !.next_steps = <<"analyze_intent">>,
                       !.current_agent = "None"],
          store |-> tbl]
    ELSE LET missing_fields == reply.missing_fields
             extracted_context == reply.extracted_context
             reconciled == Reconciled(reply, current_context)
             target_context == TargetContext(reply.primary_intent,
                                             extracted_context)
             merged == Dict(update_dict(current_context, target_context))
             store1 == add_message(tbl, sid, "primary_intent",
                                   Str(reply.primary_intent))
             branch == RouterBranch(reply, reconciled)
             st == CASE branch = "recommendation" ->
                         [st0 EXCEPT !.current_agent = "recommendation",
                                     !.context = merged,
                                     !.next_steps = <<>>]
                     [] branch = "need_more_info" ->
                         [st0 EXCEPT
                            !.context = merged,
                            !.result = Result("need_more_info", "router",
                                   EmittedMissing(missing_fields, reconciled),
                                   TRUE, merged, FALSE),
                            !.next_steps = <<"analyze_intent">>,
                            !.current_agent = "None"]
                     [] OTHER ->
                         [st0 EXCEPT
                            !.current_agent = reply.primary_intent,
                            !.context = merged,
                            !.next_steps = reply.suggested_next_steps]
         IN [raised |-> FALSE, state |-> st,
             store |-> IF branch = "invoke" THEN store1
                       ELSE add_message(store1, sid, "context", merged)]

\* what the router read and decided, for the reply it was given
RouteOf(reply, current_context) ==
    IF reply.kind = "raise"
    THEN [NoRoute EXCEPT !.branch = "oracle_raised",
                         !.current_context = current_context]
    ELSE IF reply.kind = "not_json"
    THEN [NoRoute EXCEPT !.branch = "unparsed",
                         !.current_context = current_context]
    ELSE [branch |-> RouterBranch(reply, Reconciled(reply, current_context)),
          current_context |-> current_context,
          extracted_context |-> reply.extracted_context,
          missing_fields |-> reply.missing_fields,
          reconciled |-> Reconciled(reply, current_context),
          primary_intent |-> reply.primary_intent]

\* lines 220-471: the oracle is asked and its reply decides
Classify(reply, sid, current_context) ==
    LET o == ClassifyOutcome(reply, sid, current_context, state, store)
    IN /\ oracle' = oracle + 1
       /\ router' = RouteOf(reply, current_context)
       /\ store' = o.store
       /\ IF o.raised
          THEN /\ pc' = "fault"
               /\ UNCHANGED <<state, events>>
          ELSE /\ state' = o.state
               /\ events' = events \o NodeChunks("analyze_intent", o.state)
               /\ pc' = RouteAfterIntent(o.state)
       /\ UNCHANGED dispatched

\* lines 208-212: the data of the session's latest context event, or {}
CurrentContext(session_data) ==
    IF HasKind(session_data, "context")
    THEN LastData(session_data, "context").dict
    ELSE EmptyMap

\* the node analyze_intent: _analyze_intent, the chunk process_stream yields
\* for it, and the conditional edge _get_next_node
AnalyzeIntent ==
    /\ pc = "analyze_intent"
    /\ Resumed
    /\ LET sid == state.session_id
           session_data == get_conversation_history(store, sid)
           msg == state.msg
           current_context == CurrentContext(session_data)
       IN IF HasAt(msg) /\ HasDot(msg) /\ HasKind(session_data, "plan")
          THEN EmailCapture(session_data, msg)
          ELSE IF HasKind(session_data, "email")
                  /\ HasKind(session_data, "plan")
          THEN CalendarReply(msg, current_context)
          ELSE \E reply \in RouterReplies :
                  Classify(reply, sid, current_context)
    /\ UNCHANGED <<m, search, recommendation, calendar, mail, cache, conversation_history, req, consumed, sse, inserted, turn, last>>

(***************************************************************************)
(* The handlers, by their contract with the engine: process(request)       *)
(* returns a result or raises; what it appends to the store and inserts    *)
(* into the calendar is part of the outcome.                               *)
(***************************************************************************)
Outcome(raised, result, tbl, cal) ==
    [raised |-> raised, result |-> result, store |-> tbl, inserted |-> cal]

\* PlannerAgent.validate on `input_data.get("context") or input_data`
PlannerValid(context) ==
    /\ IsDict(context)
    /\ {"destination", "duration", "preferences"} \subseteq DOMAIN context.dict

\* PlannerAgent.process: an invalid request is an error; otherwise the three
\* LLM calls give a plan or an error result (every exception is caught)
PlannerOutcomes(st, tbl, cal) ==
    { Outcome(FALSE, HandlerResult("error", "planner"), tbl, cal) }
    \cup IF PlannerValid(st.context)
         THEN { Outcome(FALSE,
                        Result("success", "planner", <<>>, FALSE, None, TRUE),
                        tbl, cal) }
         ELSE {}

\* SearchAgent.process: the engine's request has no plan, validate fails
SearchOutcomes(st, tbl, cal) ==
    { Outcome(FALSE, HandlerResult("error", "search"), tbl, cal) }

\* MailAgent.process: input_data["plan"] is a KeyError, caught
MailOutcomes(st, tbl, cal) ==
    { Outcome(FALSE, HandlerResult("error", "mail"), tbl, cal) }

RecommendationFields ==
    {"travel_style", "activities", "budget", "accommodation", "transportation"}

\* result.get("collected_info", {}) of the LLM's reply
CollectedChoices ==
    { EmptyMap,
      ("travel_style" :> Str("relaxing")) @@ ("budget" :> EmptyStr),
      [f \in RecommendationFields |-> Str("given")] }

\* RecommendationAgent.process
RecommendationOutcomes(st, tbl, cal) ==
    LET sid == st.session_id
        session_data == get_conversation_history(tbl, sid)
        collected_info == IF HasKind(session_data, "collected_info")
                          THEN LastData(session_data, "collected_info").dict
                          ELSE EmptyMap
        current_step == IF "next_step" \in DOMAIN collected_info
                        THEN collected_info["next_step"].str
                        ELSE "preferences"
        \* _get_llm_recommendation re-raises once the retries are used up
        raises == { Outcome(TRUE, NoResult, tbl, cal) }
    IN IF current_step = "preferences"
       THEN raises \cup
            { LET merged == update_dict(collected_info, c)
                  missing == {f \in RecommendationFields :
                                 ~Truthy(Get(merged, f))}
                  next_step == IF missing = {} THEN "destination"
                               ELSE "preferences"
                  stored == SetKey(merged, "next_step", Str(next_step))
              IN Outcome(FALSE, HandlerResult(status, "recommendation"),
                         add_message(tbl, sid, "collected_info", Dict(stored)),
                         cal) :
              c \in CollectedChoices, status \in {"success", "error"} }
       ELSE IF current_step = "destination"
       THEN raises \cup
            { Outcome(FALSE, HandlerResult(status, "recommendation"), tbl, cal) :
              status \in {"success", "error"} }
       ELSE { Outcome(FALSE, HandlerResult("error", "recommendation"), tbl, cal) }

\* a plan event's payload: the number of activities of each itinerary day
Plan(itinerary) == [itinerary |-> itinerary]

\* a conversation_state event's payload
ConversationState(day, activity, confirmed) ==
    [current_day |-> day, current_activity |-> activity,
     confirmed_events |-> confirmed]

\* CalendarAgent.process
CalendarOutcomes(st, tbl, cal) ==
    LET sid == st.session_id
        session_data == get_conversation_history(tbl, sid)
        msg == st.context
    IN IF ~("plan" \in DOMAIN session_data /\ session_data["plan"] # <<>>)
          \/ ~("email" \in DOMAIN session_data /\ session_data["email"] # <<>>)
       THEN \* session_data["plan"] or session_data["email"]: KeyError
            { Outcome(TRUE, NoResult, tbl, cal) }
       ELSE
       LET itinerary == LastData(session_data, "plan").itinerary
           email == LastData(session_data, "email")
       IN IF ~("conversation_state" \in DOMAIN session_data)
          THEN { Outcome(FALSE, HandlerResult("conversation", "calendar"),
                         add_message(tbl, sid, "conversation_state",
                                     ConversationState(1, 0, <<>>)), cal) }
          ELSE IF ~IsStr(msg)
          THEN \* msg.lower() on a mapping: AttributeError
               { Outcome(TRUE, NoResult, tbl, cal) }
          ELSE
          LET conversation_state == LastData(session_data, "conversation_state")
              user_response == msg.str
              current_day == conversation_state.current_day
              current_activity == conversation_state.current_activity
              event == <<current_day, current_activity>>
              confirmed == IF user_response = "yes"
                           THEN Append(conversation_state.confirmed_events, event)
                           ELSE conversation_state.confirmed_events
              cal1 == IF user_response = "yes"
                      THEN Append(cal, [calendarId |-> email, event |-> event])
                      ELSE cal
              last_of_day == current_activity + 1 >= itinerary[current_day]
              next_day == IF last_of_day THEN current_day + 1 ELSE current_day
              next_activity == IF last_of_day THEN 0 ELSE current_activity + 1
          IN IF user_response = "done"
             THEN { Outcome(FALSE, HandlerResult("success", "calendar"),
                            clear_conversation(tbl, sid), cal) }
             ELSE IF next_day > Len(itinerary)
             THEN { Outcome(FALSE, HandlerResult("success", "calendar"),
                            tbl, cal1) }
             ELSE { Outcome(FALSE, HandlerResult("conversation", "calendar"),
                            add_message(tbl, sid, "conversation_state",
                                ConversationState(next_day, next_activity,
                                                  confirmed)),
                            cal1) }

\* agent.process(...) of the handler registered under agent_name
HandlerOutcomes(agent_name, st, tbl, cal) ==
    CASE agent_name = "planner" -> PlannerOutcomes(st, tbl, cal)
      [] agent_name = "search" -> SearchOutcomes(st, tbl, cal)
      [] agent_name = "mail" -> MailOutcomes(st, tbl, cal)
      [] agent_name = "recommendation" -> RecommendationOutcomes(st, tbl, cal)
      [] OTHER -> CalendarOutcomes(st, tbl, cal)

\* the record _run_agent appends to workflow_history
HistoryRecord(agent_name, st) == [agent |-> agent_name]

\* a handler's node: _run_agent(agent_name).run, the chunk process_stream
\* yields for it, and the edge to determine_next_steps
RunAgent(agent_name) ==
    /\ pc = agent_name
    /\ Resumed
    /\ \E o \in HandlerOutcomes(agent_name, state, store, inserted) :
          LET hist == Append(state.workflow_history,
                             HistoryRecord(agent_name, state))
              \* is_complete_search is set on a successful search result only;
              \* nothing reads it
              st == [state EXCEPT !.workflow_history = hist,
                                  !.result = o.result]
          IN /\ store' = o.store
             /\ inserted' = o.inserted
             /\ IF o.raised
                THEN /\ pc' = "fault"
                     /\ state' = [state EXCEPT !.workflow_history = hist]
                     /\ UNCHANGED events
                ELSE /\ pc' = "determine_next_steps"
                     /\ state' = st
                     /\ events' = events \o NodeChunks(agent_name, st)
    /\ UNCHANGED <<m, search, recommendation, calendar, mail, cache, conversation_history, req, consumed, sse, oracle,
                   dispatched, router, turn, last>>

(***************************************************************************)
(* The continuation planner.                                               *)
(***************************************************************************)
NextStepsChoices ==
    { <<>>,
      <<"planner">>,
      <<"search", "search">>,
      <<"recommendation", "mail">>,
      <<"bogus", "calendar", "calendar">> }

ContinuationReply(kind, is_complete, next_steps) ==
    [kind |-> kind, is_complete |-> is_complete, next_steps |-> next_steps]

ContinuationReplies ==
    { ContinuationReply("raise", FALSE, <<>>),
      ContinuationReply("not_json", FALSE, <<>>) }
    \cup { ContinuationReply("json", c, n) :
             c \in BOOLEAN, n \in NextStepsChoices }

\* executed_agents (lines 515-518)
ExecutedAgents(workflow_history) ==
    {workflow_history[i].agent : i \in 1..Len(workflow_history)}

\* the filter without the `step not in executed_agents` test
FilterStepsValidOnly(next_steps, executed_agents) ==
    SelectSeq(next_steps, LAMBDA step : step \in Agents)

\* lines 580-584: valid handler names that were not executed in this turn
FilterSteps(next_steps, executed_agents) ==
    SelectSeq(next_steps,
              LAMBDA step : step \in Agents /\ step \notin executed_agents)

\* the result that asks for the delivery address (lines 522-530)
EmailRequest(context) ==
    Result("need_more_info", "continuation", <<"email">>, TRUE, context, FALSE)

\* the planner test on the router's next handler instead of the history
PlannerDoneFirstOnly(workflow_history) ==
    workflow_history # <<>> /\ workflow_history[1].agent = "planner"

\* `"planner" in executed_agents` (line 520)
PlannerDone(workflow_history) ==
    "planner" \in ExecutedAgents(workflow_history)

\* an edge that sends an empty next_steps back to the router
RouteAfterStepsAgain(next_steps) ==
    IF next_steps # <<>> /\ Head(next_steps) \in Agents THEN Head(next_steps)
    ELSE "analyze_intent"

\* _get_next_step_node and the conditional edge's mapping (lines 148-160)
RouteAfterSteps(next_steps) ==
    IF next_steps = <<>> THEN "end"
    ELSE IF Head(next_steps) \in Agents THEN Head(next_steps)
    ELSE "analyze_intent"

\* the node's output st, the chunk yielded for it, and the edge.  The edge
\* function assigns state["next_steps"] and state["current_agent"] on the
\* mapping it was handed; whether the graph keeps these assignments is the
\* graph library's choice, so both are allowed (kept).
Continue(st, kept) ==
    LET target == RouteAfterSteps(st.next_steps)
    IN /\ events' = events \o NodeChunks("determine_next_steps", st)
       /\ pc' = target
       /\ state' = IF kept /\ st.next_steps # <<>>
                   THEN [st EXCEPT !.next_steps = Tail(st.next_steps),
                                   !.current_agent = target]
                   ELSE st

\* the node determine_next_steps: _determine_next_steps, the chunk
\* process_stream yields for it, and the conditional edge
DetermineNextSteps ==
    /\ pc = "determine_next_steps"
    /\ Resumed
    /\ \E kept \in BOOLEAN :
       IF state.result = NoResult \/ state.result.status # "success"
       THEN /\ Continue([state EXCEPT !.next_steps = <<>>], kept)
            /\ UNCHANGED oracle
       ELSE IF PlannerDone(state.workflow_history)
       THEN /\ Continue([state EXCEPT !.result = EmailRequest(state.context),
                                      !.next_steps = <<>>], kept)
            /\ UNCHANGED oracle
       ELSE \E reply \in ContinuationReplies :
            /\ oracle' = oracle + 1
            /\ IF reply.kind # "json"
               THEN \* the call raises, or json.loads does (line 573)
                    /\ pc' = "fault"
                    /\ UNCHANGED <<state, events>>
               ELSE IF reply.is_complete \/ reply.next_steps = <<>>
               THEN Continue([state EXCEPT !.next_steps = <<>>], kept)
               ELSE Continue([state EXCEPT !.next_steps =
                                FilterSteps(reply.next_steps,
                                    ExecutedAgents(state.workflow_history))],
                             kept)
    /\ UNCHANGED <<m, search, recommendation, calendar, mail, cache, store, conversation_history, req, consumed, sse,
                   dispatched, router, inserted, turn, last>>

(***************************************************************************)
(* process_stream's prologue and the two ways a turn starts.               *)
(***************************************************************************)
NoSession == "None"

\* session_data.get("context", {}) of chat.py's session map (lines 40-41)
ChatContext(hist, session_id) ==
    IF session_id \in DOMAIN hist /\ "context" \in DOMAIN hist[session_id]
    THEN hist[session_id]["context"]
    ELSE EmptyDict

\* the input_data stream_response builds (lines 45-50): message, context,
\* previous_result and plan; it has no "session_id" key
StreamInputData(message, session_id) ==
    [entry |-> "api", message |-> message, session_id |-> session_id,
     has_session_id |-> FALSE,
     context |-> ChatContext(conversation_history, session_id)]

\* a context that holds every planner field
SuppliedContext ==
    Dict(("departure_location" :> Str("Seoul")) @@
         ("departure_date" :> Str("2025-06-01")) @@
         ("destination" :> Str("Jeju")) @@ ("duration" :> Str("2 days")) @@
         ("preferences" :> Dict(("budget" :> Str("500000")))))

\* input_data.get("context", {}): the key is absent for any message, or
\* holds a context along with a first message
RequestContexts(message) ==
    IF message = "plan a trip" THEN {EmptyDict, SuppliedContext}
    ELSE {EmptyDict}

\* an input_data of the engine's own contract: message, session_id and an
\* optional context
EngineInputData(message, session_id, context) ==
    [entry |-> "engine", message |-> message, session_id |-> session_id,
     has_session_id |-> TRUE, context |-> context]

\* process_stream up to the first node (lines 621-639)
ProcessStreamBegin(input_data) ==
    IF input_data.message = ""
    THEN /\ events' = <<Chunk("error", HandlerResult("invalid", "process_stream"),
                              FALSE)>>
         /\ pc' = "end"
         /\ state' = NoState
    ELSE IF ~input_data.has_session_id
    THEN \* input_data["session_id"]: KeyError
         /\ events' = <<>>
         /\ pc' = "fault"
         /\ state' = NoState
    ELSE /\ events' = <<>>
         /\ pc' = "analyze_intent"
         /\ state' = AgentState(input_data.message, input_data.session_id,
                                 input_data.context)

Idle == pc \in {"idle", "done", "raised"}

\* no turn came before
NoLast == [session_id |-> "None", asked |-> <<>>, planned |-> FALSE]

\* how the turn that is over ended: the fields its router asked for on
\* behalf of the planner, and whether it paused after the planner's success
TurnSummary ==
    [session_id |-> state.session_id,
     asked |-> IF router.branch = "need_more_info"
                  /\ router.primary_intent = "planner"
               THEN state.result.missing_fields ELSE <<>>,
     planned |-> /\ pc = "done"
                 /\ PlannerDone(state.workflow_history)
                 /\ state.result = EmailRequest(state.context)]

BeginTurn(input_data) ==
    /\ turn < MaxTurns
    /\ turn' = turn + 1
    /\ req' = input_data
    /\ ProcessStreamBegin(input_data)
    /\ consumed' = 0
    /\ sse' = <<>>
    /\ oracle' = 0
    /\ router' = NoRoute
    /\ last' = TurnSummary
    /\ UNCHANGED <<m, search, recommendation, calendar, mail, cache, store, conversation_history, dispatched, inserted>>

\* GET /chat: stream_response(message, session_id) starts
StreamResponse ==
    /\ Idle
    /\ \E message \in Messages, session_id \in Sessions \cup {NoSession} :
          BeginTurn(StreamInputData(message, session_id))

\* a caller of the engine: process_stream(input_data) starts
ProcessStream ==
    /\ Idle
    /\ \E message \in Messages, session_id \in Sessions :
          \E context \in RequestContexts(message) :
              BeginTurn(EngineInputData(message, session_id, context))

\* the engine's caller: the generator is exhausted
EngineReturn ==
    /\ req.entry = "engine"
    /\ pc = "end"
    /\ pc' = "done"
    /\ UNCHANGED <<m, search, recommendation, calendar, mail, cache, store, conversation_history, req, state, events,
                   consumed, sse, oracle, dispatched, router, inserted, turn, last>>

\* the engine's caller: the generator raised
EngineRaise ==
    /\ req.entry = "engine"
    /\ pc = "fault"
    /\ pc' = "raised"
    /\ UNCHANGED <<m, search, recommendation, calendar, mail, cache, store, conversation_history, req, state, events,
                   consumed, sse, oracle, dispatched, router, inserted, turn, last>>

(***************************************************************************)
(* stream_response: the loop over the chunks and the two endings.          *)
(***************************************************************************)
\* lines 55-66: the per-process session map after a success/need_more_info
\* chunk
ChatUpdate(hist, session_id, chunk) ==
    IF session_id = NoSession THEN hist
    ELSE LET old == IF session_id \in DOMAIN hist THEN hist[session_id]
                    ELSE EmptyMap
             h1 == IF chunk.result.has_context
                   THEN SetKey(old, "context", chunk.result.current_context)
                   ELSE old
             h2 == IF chunk.status = "success"
                   THEN IF chunk.result.plan
                        THEN SetKey(h1, "plan", Str("plan"))
                        ELSE SetKey(h1, "previous_result",
                                    Str(chunk.result.origin))
                   ELSE h1
         IN SetKey(hist, session_id, h2)

\* the except branch that forgets the completion marker
FaultFramesNoComplete == <<ErrorFrame>>

\* the except branch that swallows the fault: the marker alone
FaultFramesSilent == <<CompleteFrame>>

\* the except branch (lines 77-88): the error event, then the marker
FaultFrames == <<ErrorFrame, CompleteFrame>>

\* the frames of the loop's body for one chunk (lines 51-72)
ChunkFrames(chunk) ==
    IF chunk.status \in {"success", "need_more_info"}
    THEN <<Frame("message", chunk.result.status)>>
    ELSE IF chunk.status = "processing"
    THEN IF chunk.output_message THEN <<Frame("message", "progress")>> ELSE <<>>
    ELSE <<Frame("message", "Failed to process message")>>

\* one iteration of `async for chunk in orchestrator.process_stream(...)`
StreamChunk ==
    /\ req.entry = "api"
    /\ pc # "done"
    /\ consumed < Len(events)
    /\ consumed' = consumed + 1
    /\ LET chunk == events[consumed + 1]
       IN IF chunk.status \in {"success", "need_more_info"} /\ ~chunk.result.json
          THEN \* json.dumps raises: the except branch ends the stream
               /\ sse' = sse \o FaultFrames
               /\ pc' = "done"
               /\ UNCHANGED conversation_history
          ELSE /\ sse' = sse \o ChunkFrames(chunk)
               /\ conversation_history' =
                    IF chunk.status \in {"success", "need_more_info"}
                    THEN ChatUpdate(conversation_history, req.session_id, chunk)
                    ELSE conversation_history
               /\ UNCHANGED pc
    /\ UNCHANGED <<m, search, recommendation, calendar, mail, cache, store, req, state, events, oracle, dispatched, router,
                   inserted, turn, last>>

\* the generator is exhausted: the completion marker (line 75)
StreamEnd ==
    /\ req.entry = "api"
    /\ pc = "end"
    /\ consumed = Len(events)
    /\ sse' = Append(sse, CompleteFrame)
    /\ pc' = "done"
    /\ UNCHANGED <<m, search, recommendation, calendar, mail, cache, store, conversation_history, req, state, events,
                   consumed, oracle, dispatched, router, inserted, turn, last>>

\* the generator raised: the except branch (lines 77-88)
StreamFault ==
    /\ req.entry = "api"
    /\ pc = "fault"
    /\ sse' = sse \o FaultFrames
    /\ pc' = "done"
    /\ UNCHANGED <<m, search, recommendation, calendar, mail, cache, store, conversation_history, req, state, events,
                   consumed, oracle, dispatched, router, inserted, turn, last>>

(***************************************************************************)
(* The turn engine behind its two entries.                                 *)
(***************************************************************************)
PlannedContext ==
    Dict(("destination" :> Str("Busan")) @@ ("duration" :> Str("3 days")) @@
         ("preferences" :> Dict(PlannerPreferences)))

\* what the table holds for a session when the process starts: nothing, a
\* context and a plan, or a context, a plan and a captured address
InitItems ==
    { EmptyMap,
      ("context" :> <<PlannedContext>>) @@ ("plan" :> <<Plan(<<2>>)>>),
      ("context" :> <<PlannedContext>>) @@ ("plan" :> <<Plan(<<2>>)>>) @@
          ("email" :> <<Str("user@example.com")>>) }

\* SearchAgent before process is called (see SpecSearch)
\* asyncio.Semaphore(3): the initial value of llm_semaphore, naver_semaphore
Permits == 3
\* a retry loop that gives up one attempt later
max_retries_4 == Permits + 1

\* max_retries of _execute_search_with_retry
max_retries == 3
\* params["display"]: the items one place search returns at most
display == 2

AbsentKey == "<absent>"
NoSearchResult == [status |-> "none", error |-> AbsentKey, message |-> ""]

NoSearch ==
    [pc |-> "idle", input |-> [plan |-> FALSE],
     naver_semaphore |-> Permits, llm_semaphore |-> Permits,
     intent |-> "none", summary |-> "none", loc |-> <<>>,
     result |-> NoSearchResult]

\* RecommendationAgent before process is called (see SpecRecommendation)
NoRecommendation ==
    [calls |-> 0,
     turn |-> [p \in {"p1", "p2"} |->
                  [pc |-> "idle", read_ok |-> TRUE, session_data |-> EmptyMap]],
     last |-> [step |-> "none", read_ok |-> TRUE, raised |-> FALSE,
               wrote |-> FALSE]]

\* CalendarAgent.__init__: self.tips = [], self.email = None; no call yet
NoCalendar ==
    [tips |-> <<>>, email |-> None, calls |-> 0,
     turn |-> [sid \in {"s1", "s2"} |-> "idle"],
     crossed |-> [sid \in {"s1", "s2"} |-> FALSE],
     last |-> [sid |-> "None", status |-> "none", calendarId |-> None,
               tips |-> <<>>, inserted |-> FALSE, crossed |-> FALSE,
               raised |-> FALSE]]

\* MailAgent before process is called (see SpecMail)
NoMail ==
    [pc |-> "idle", calls |-> 0,
     input |-> [email |-> FALSE, message |-> FALSE, plan |-> FALSE,
                context |-> FALSE, search_result |-> "absent"],
     sent |-> FALSE, status |-> "none"]

NoMerge ==
    [pc |-> "off", B |-> EmptyMap, O1 |-> EmptyMap, O2 |-> EmptyMap,
     r1 |-> EmptyMap, r2 |-> EmptyMap, r3 |-> EmptyMap, arg1 |-> EmptyMap]

InitTurn ==
    /\ search = NoSearch
    /\ recommendation = NoRecommendation
    /\ calendar = NoCalendar
    /\ mail = NoMail
    /\ cache = NoCache
    /\ conversation_history = EmptyMap
    /\ req = NoRequest
    /\ pc = "idle"
    /\ state = NoState
    /\ events = <<>>
    /\ consumed = 0
    /\ sse = <<>>
    /\ oracle = 0
    /\ dispatched = <<>>
    /\ router = NoRoute
    /\ inserted = <<>>
    /\ turn = 0
    /\ last = NoLast

Init ==
    /\ m = NoMerge
    /\ store \in [Sessions -> InitItems]
    /\ InitTurn

Next ==
    \/ StreamResponse
    \/ ProcessStream
    \/ AnalyzeIntent
    \/ \E agent_name \in Agents : RunAgent(agent_name)
    \/ DetermineNextSteps
    \/ EngineReturn
    \/ EngineRaise
    \/ StreamChunk
    \/ StreamEnd
    \/ StreamFault

Spec == Init /\ [][Next]_vars

(***************************************************************************)
(* stream_response against any producer: process_stream taken as an async  *)
(* generator that yields chunks of its four statuses, returns or raises.    *)
(***************************************************************************)
AnyResult(status, rich, json) ==
    [Result(status, "any", <<>>, rich, EmptyDict, rich) EXCEPT !.json = json]

AnyChunks ==
    { Chunk(status, AnyResult(status, rich, json), FALSE) :
        status \in {"success", "need_more_info"},
        rich \in BOOLEAN, json \in BOOLEAN }
    \cup { Chunk("processing", NoResult, o) : o \in BOOLEAN }
    \cup { Chunk("error", HandlerResult("invalid", "process_stream"), FALSE) }

\* GET /chat with a producer of which nothing is assumed
StreamResponseAny ==
    /\ Idle
    /\ turn < MaxStreams
    /\ turn' = turn + 1
    /\ \E session_id \in Sessions \cup {NoSession} :
          req' = StreamInputData("plan a trip", session_id)
    /\ pc' = "producer"
    /\ events' = <<>>
    /\ consumed' = 0
    /\ sse' = <<>>
    /\ UNCHANGED <<m, search, recommendation, calendar, mail, cache, store, conversation_history, state, oracle, dispatched,
                   router, inserted, last>>

ProducerYield ==
    /\ pc = "producer"
    /\ Resumed
    /\ Len(events) < MaxChunks
    /\ \E chunk \in AnyChunks : events' = Append(events, chunk)
    /\ UNCHANGED <<m, search, recommendation, calendar, mail, cache, store, conversation_history, req, pc, state, consumed,
                   sse, oracle, dispatched, router, inserted, turn, last>>

ProducerReturn ==
    /\ pc = "producer"
    /\ Resumed
    /\ pc' = "end"
    /\ UNCHANGED <<m, search, recommendation, calendar, mail, cache, store, conversation_history, req, state, events,
                   consumed, sse, oracle, dispatched, router, inserted, turn, last>>

ProducerRaise ==
    /\ pc = "producer"
    /\ Resumed
    /\ pc' = "fault"
    /\ UNCHANGED <<m, search, recommendation, calendar, mail, cache, store, conversation_history, req, state, events,
                   consumed, sse, oracle, dispatched, router, inserted, turn, last>>

InitStream ==
    /\ m = NoMerge
    /\ store = [s \in Sessions |-> EmptyMap]
    /\ InitTurn

NextStream ==
    \/ StreamResponseAny
    \/ ProducerYield
    \/ ProducerReturn
    \/ ProducerRaise
    \/ StreamChunk
    \/ StreamEnd
    \/ StreamFault

SpecStream == InitStream /\ [][NextStream]_vars

(***************************************************************************)
(* The context merger on its own: update_dict over bounded mappings.       *)
(***************************************************************************)
Scalars == {None, EmptyStr, EmptyList, Str("a"), Str("b")}

\* the mappings over a set of keys with values in vals, any key may be absent
Maps(keys, vals) == UNION {[S -> vals] : S \in SUBSET keys}

RECURSIVE MergeValues(_)
MergeValues(depth) ==
    IF depth = 0 THEN Scalars
    ELSE Scalars \cup {Dict(f) : f \in Maps({"x"}, MergeValues(depth - 1))}

MergeDicts ==
    { f @@ g : f \in Maps({"preferences"}, MergeValues(MaxDepth)),
               g \in Maps({"destination"}, {Str("a"), EmptyStr}) }

InitMerge ==
    /\ \E B \in MergeDicts, O1 \in MergeDicts, O2 \in MergeDicts :
          m = [pc |-> "in", B |-> B, O1 |-> O1, O2 |-> O2, r1 |-> EmptyMap,
               r2 |-> EmptyMap, r3 |-> EmptyMap, arg1 |-> B]
    /\ store = [s \in Sessions |-> EmptyMap]
    /\ InitTurn

\* result = update_dict(B, O1); the call writes to its copy only, the
\* argument object is left as it was
MergeOnce ==
    /\ m.pc = "in"
    /\ LET call == update_dict_call(m.arg1, m.O1)
       IN m' = [m EXCEPT !.pc = "merged", !.r1 = call.result,
                         !.arg1 = call.d1]
    /\ UNCHANGED <<search, recommendation, calendar, mail, cache, store, conversation_history, req, pc, state, events,
                   consumed, sse, oracle, dispatched, router, inserted, turn, last>>

\* the second overlay, folded left and grouped to the right
MergeAgain ==
    /\ m.pc = "merged"
    /\ m' = [m EXCEPT !.pc = "folded",
                      !.r2 = update_dict(m.r1, m.O2),
                      !.r3 = update_dict(m.B, update_dict(m.O1, m.O2))]
    /\ UNCHANGED <<search, recommendation, calendar, mail, cache, store, conversation_history, req, pc, state, events,
                   consumed, sse, oracle, dispatched, router, inserted, turn, last>>

NextMerge == MergeOnce \/ MergeAgain

SpecMerge == InitMerge /\ [][NextMerge]_vars

(***************************************************************************)
(* The cache client on its own: processes that share the table call        *)
(* get_conversation_history, add_message and clear_conversation.  A call   *)
(* of the table (get_item, put_item, delete_item) is one step and answers  *)
(* or raises; add_message is two calls of the table.                       *)
(***************************************************************************)
StoreKeys == {"s1", "s2"}
StoreKinds == {"context", "plan"}

\* a write of the item of sid by the call id happened: every other process
\* that has read this item and not yet put it notes the call
NoteWrite(procs, p, sid, id) ==
    [q \in Procs |->
        IF q # p /\ procs[q].pc = "put" /\ procs[q].sid = sid
        THEN [procs[q] EXCEPT !.overlap = @ \cup {id}]
        ELSE procs[q]]

\* get_conversation_history(sid) by process p
GetHistory(p) ==
    /\ cache.proc[p].pc = "idle"
    /\ cache.calls < MaxCalls
    /\ \E sid \in StoreKeys, ok \in BOOLEAN :
          LET call == GetCall(store, sid, ok)
          IN cache' = [cache EXCEPT
                 !.calls = @ + 1,
                 !.proc[p].last =
                     [NoCall EXCEPT !.op = "get", !.id = cache.calls + 1,
                                    !.sid = sid, !.read_ok = ok,
                                    !.raised = call.raised,
                                    !.returned = call.value,
                                    !.absent = store[sid] = EmptyMap]]
    /\ UNCHANGED <<m, search, recommendation, calendar, mail, store, conversation_history, req, pc, state, events,
                   consumed, sse, oracle, dispatched, router, inserted, turn,
                   last>>

\* add_message(sid, {type: kind, data: id}) by process p, up to the snapshot
\* it reads at line 43; the event's data is the number of the call
AddMessageRead(p) ==
    /\ cache.proc[p].pc = "idle"
    /\ cache.calls < MaxCalls
    /\ \E sid \in StoreKeys, kind \in StoreKinds, ok \in BOOLEAN :
          cache' = [cache EXCEPT
              !.calls = @ + 1,
              !.proc[p] = [@ EXCEPT
                  !.pc = "put", !.id = cache.calls + 1, !.sid = sid,
                  !.kind = kind, !.read_ok = ok, !.overlap = {},
                  !.current_messages = GetCall(store, sid, ok).value]]
    /\ UNCHANGED <<m, search, recommendation, calendar, mail, store, conversation_history, req, pc, state, events,
                   consumed, sse, oracle, dispatched, router, inserted, turn,
                   last>>

\* add_message from line 46 to its return
AddMessagePut(p) ==
    /\ cache.proc[p].pc = "put"
    /\ \E ok \in BOOLEAN :
          LET me == cache.proc[p]
              item == NewItem(me.current_messages, me.kind, me.id)
              call == PutCall(store, me.sid, item, ok)
              noted == IF ok THEN NoteWrite(cache.proc, p, me.sid, me.id)
                       ELSE cache.proc
          IN /\ store' = call.table
             /\ cache' = [cache EXCEPT
                    !.proc = [noted EXCEPT ![p] =
                        [NoProc EXCEPT !.last =
                            [NoCall EXCEPT
                                !.op = "add", !.id = me.id, !.sid = me.sid,
                                !.kind = me.kind, !.read_ok = me.read_ok,
                                !.write_ok = ok, !.raised = call.raised,
                                !.overlap = me.overlap,
                                !.absent = store[me.sid] = EmptyMap]]]]
    /\ UNCHANGED <<m, search, recommendation, calendar, mail, conversation_history, req, pc, state, events, consumed,
                   sse, oracle, dispatched, router, inserted, turn, last>>

\* clear_conversation(sid) by process p
ClearConversation(p) ==
    /\ cache.proc[p].pc = "idle"
    /\ cache.calls < MaxCalls
    /\ \E sid \in StoreKeys, ok \in BOOLEAN :
          LET call == ClearCall(store, sid, ok)
              id == cache.calls + 1
              noted == IF ok THEN NoteWrite(cache.proc, p, sid, id)
                       ELSE cache.proc
          IN /\ store' = call.table
             /\ cache' = [cache EXCEPT
                    !.calls = id,
                    !.proc = [noted EXCEPT ![p].last =
                        [NoCall EXCEPT !.op = "clear", !.id = id,
                                       !.sid = sid, !.write_ok = ok,
                                       !.raised = call.raised,
                                       !.absent = store[sid] = EmptyMap]]]
    /\ UNCHANGED <<m, search, recommendation, calendar, mail, conversation_history, req, pc, state, events, consumed,
                   sse, oracle, dispatched, router, inserted, turn, last>>

InitStore ==
    /\ m = NoMerge
    /\ store = [k \in StoreKeys |-> EmptyMap]
    /\ InitTurn

NextStore ==
    \E p \in Procs :
        \/ GetHistory(p)
        \/ AddMessageRead(p)
        \/ AddMessagePut(p)
        \/ ClearConversation(p)

SpecStore == InitStore /\ [][NextStore]_vars

(***************************************************************************)
(* SearchAgent (core/agents/search_agent.py): process, the tasks it fans   *)
(* out with asyncio.gather and the two semaphores they share, checked      *)
(* under SpecSearch.  A task is a coroutine of the one event loop; a step  *)
(* of the model runs one task from one suspension point to the next.       *)
(* The Naver credentials are configured and every location has a name.     *)
(***************************************************************************)
\* input_data of process: with or without a plan
SearchInputs == { [plan |-> FALSE], [plan |-> TRUE] }

\* bool(input_data.get("plan"))
SearchValidate(input_data) == input_data.plan

\* the mutant of ProcessCatch: process without its except clause
ProcessCatchNone(s, fault) == [s EXCEPT !.pc = "raised"]

\* `except Exception as e` of process: the fault becomes an error result
ProcessCatch(s, fault) ==
    [s EXCEPT !.pc = "returned",
              !.result = [status |-> "error", error |-> "Search failed",
                          message |-> fault]]

\* Semaphore.acquire does not wait while the value is positive
CanAcquire(value) == value > 0

\* the mutant of Release: the permit stays taken when the body raised
ReleaseOnSuccess(value, failed) == IF failed THEN value ELSE value + 1

\* __aexit__ of `async with semaphore`: release, whatever the body did
Release(value, failed) == value + 1

\* one coroutine enrich_place: waiting for llm_semaphore ("acquire"), calling
\* the LLM with a permit ("call"), finished with a description ("ok") or
\* with an exception ("failed")
NewPlace == [pc |-> "acquire", holds |-> FALSE]

\* one coroutine process_location, before it has run
NewLocation(priority) ==
    [pc |-> "start", priority |-> priority, retry_count |-> 0,
     holds |-> FALSE, places |-> <<>>]

\* the replies of the intent analysis: the call raises, the content is not
\* the JSON asked for, or it lists up to MaxLocations locations, each with a
\* priority below 4 (3) or of at least 4 (5)
IntentReplies ==
    { [kind |-> "raise", locations |-> <<>>],
      [kind |-> "text", locations |-> <<>>] }
    \cup { [kind |-> "json", locations |-> l] :
             l \in UNION { [1..n -> {3, 5}] : n \in 0..MaxLocations } }

nonSearch ==
    <<m, recommendation, calendar, mail, cache, store, conversation_history, req, pc, state, events, consumed,
      sse, oracle, dispatched, router, inserted, turn, last>>

\* process up to its first suspension: the validation and the prompt
Process ==
    /\ search.pc = "idle"
    /\ \E input_data \in SearchInputs :
          search' =
              IF ~SearchValidate(input_data)
              THEN [search EXCEPT
                       !.pc = "returned", !.input = input_data,
                       !.result = [status |-> "error",
                                   error |-> "Invalid search query",
                                   message |-> "no query"]]
              ELSE [search EXCEPT !.pc = "intent", !.input = input_data]
    /\ UNCHANGED nonSearch

\* lines 106-137: the intent analysis returns; json.loads and the reading
\* of search_intent["locations"]; gather makes one task per location
IntentReply ==
    /\ search.pc = "intent"
    /\ \E reply \in IntentReplies :
          search' =
              IF reply.kind # "json"
              THEN ProcessCatch([search EXCEPT !.intent = "failed"], "intent")
              ELSE [search EXCEPT
                       !.pc = "gather", !.intent = "ok",
                       !.loc = [i \in DOMAIN reply.locations |->
                                   NewLocation(reply.locations[i])]]
    /\ UNCHANGED nonSearch

\* _make_search_request at `async with self.naver_semaphore`: with a permit
\* free the request is sent at once, otherwise the task waits for one
EnterNaver(s, i) ==
    IF CanAcquire(s.naver_semaphore)
    THEN [s EXCEPT !.naver_semaphore = @ - 1,
                   !.loc[i].pc = "request", !.loc[i].holds = TRUE]
    ELSE [s EXCEPT !.loc[i].pc = "acquire"]

\* process_location from its start to its first suspension: a low priority
\* returns []; otherwise _search_places, _execute_search_with_retry and
\* _make_search_request are entered
ProcessLocation(i) ==
    /\ i \in DOMAIN search.loc
    /\ search.loc[i].pc = "start"
    /\ search' = IF search.loc[i].priority < 4
                 THEN [search EXCEPT !.loc[i].pc = "done"]
                 ELSE EnterNaver(search, i)
    /\ UNCHANGED nonSearch

\* a task that waited for naver_semaphore gets a permit; session.get is sent
AcquireNaver(i) ==
    /\ i \in DOMAIN search.loc
    /\ search.loc[i].pc = "acquire"
    /\ CanAcquire(search.naver_semaphore)
    /\ search' = EnterNaver(search, i)
    /\ UNCHANGED nonSearch

\* the response of the place search: status 200 with up to `display` items,
\* or a failure (429, another status, a network error).  The block of the
\* semaphore is left.  A failure is counted by _execute_search_with_retry,
\* which raises at max_retries and sleeps before the next attempt otherwise;
\* a success goes on to _enrich_place_details, which returns [] for no item
SearchResponse(i) ==
    /\ i \in DOMAIN search.loc
    /\ search.loc[i].pc = "request"
    /\ \E ok \in BOOLEAN, items \in 0..display :
          LET me == search.loc[i]
              failed == ~ok
              after ==
                  IF failed
                  THEN [me EXCEPT
                           !.retry_count = @ + 1,
                           !.pc = IF me.retry_count + 1 >= max_retries
                                  THEN "raised" ELSE "sleep"]
                  ELSE [me EXCEPT !.pc = IF items = 0 THEN "done"
                                         ELSE "enrich",
                                  !.retry_count = 0,
                                  !.places = [j \in 1..items |-> NewPlace]]
          IN /\ failed => items = 0
             /\ search' = [search EXCEPT
                    !.naver_semaphore = Release(@, failed),
                    !.loc[i] = [after EXCEPT !.holds = FALSE]]
    /\ UNCHANGED nonSearch

\* asyncio.sleep(retry_delay) is over: the next attempt
RetryWake(i) ==
    /\ i \in DOMAIN search.loc
    /\ search.loc[i].pc = "sleep"
    /\ search' = EnterNaver(search, i)
    /\ UNCHANGED nonSearch

\* enrich_place: `async with self.llm_semaphore` entered; llm.ainvoke is sent
AcquireLlm(i, j) ==
    /\ i \in DOMAIN search.loc
    /\ search.loc[i].pc = "enrich"
    /\ j \in DOMAIN search.loc[i].places
    /\ search.loc[i].places[j].pc = "acquire"
    /\ CanAcquire(search.llm_semaphore)
    /\ search' = [search EXCEPT
                     !.llm_semaphore = @ - 1,
                     !.loc[i].places[j] = [pc |-> "call", holds |-> TRUE]]
    /\ UNCHANGED nonSearch

\* enrich_place: the LLM returns or raises; the block of the semaphore is
\* left and an exception is raised again.  With the last place finished,
\* gather(return_exceptions=True) returns, the exceptions are filtered out
\* and process_location returns the places that are left
EnrichReply(i, j) ==
    /\ i \in DOMAIN search.loc
    /\ search.loc[i].pc = "enrich"
    /\ j \in DOMAIN search.loc[i].places
    /\ search.loc[i].places[j].pc = "call"
    /\ \E ok \in BOOLEAN :
          LET places == [search.loc[i].places EXCEPT ![j] =
                            [pc |-> IF ok THEN "ok" ELSE "failed",
                             holds |-> FALSE]]
              finished == \A k \in DOMAIN places :
                              places[k].pc \in {"ok", "failed"}
          IN search' = [search EXCEPT
                 !.llm_semaphore = Release(@, ~ok),
                 !.loc[i].places = places,
                 !.loc[i].pc = IF finished THEN "done" ELSE "enrich"]
    /\ UNCHANGED nonSearch

\* asyncio.gather of line 135: the first exception of a task is raised in
\* process (the other tasks go on); otherwise it returns when all are done
Gather ==
    /\ search.pc = "gather"
    /\ \/ /\ \E i \in DOMAIN search.loc : search.loc[i].pc = "raised"
          /\ search' = ProcessCatch(search, "search")
       \/ /\ \A i \in DOMAIN search.loc : search.loc[i].pc = "done"
          /\ search' = [search EXCEPT !.pc = "summary"]
    /\ UNCHANGED nonSearch

\* lines 177-193: the summary call returns or raises (the context holds a
\* destination)
SummaryReply ==
    /\ search.pc = "summary"
    /\ \E ok \in BOOLEAN :
          search' =
              IF ~ok
              THEN ProcessCatch([search EXCEPT !.summary = "failed"],
                                "summary")
              ELSE [search EXCEPT
                       !.pc = "returned", !.summary = "ok",
                       !.result = [status |-> "success", error |-> AbsentKey,
                                   message |-> "summary"]]
    /\ UNCHANGED nonSearch

InitSearch ==
    /\ m = NoMerge
    /\ store = [s \in Sessions |-> EmptyMap]
    /\ InitTurn

NextSearch ==
    \/ Process
    \/ IntentReply
    \/ \E i \in 1..MaxLocations :
          \/ ProcessLocation(i)
          \/ AcquireNaver(i)
          \/ SearchResponse(i)
          \/ RetryWake(i)
          \/ \E j \in 1..display : AcquireLlm(i, j) \/ EnrichReply(i, j)
    \/ Gather
    \/ SummaryReply

SpecSearch == InitSearch /\ [][NextSearch]_vars

(***************************************************************************)
(* MailAgent (core/agents/mail_agent.py) and the request the delivery task *)
(* hands it (tasks.py), checked under SpecMail.                            *)
(***************************************************************************)
\* the shapes of input_data: the keys it holds (plan with its four keys,
\* context with destination and duration) and what search_result is: not
\* given, SearchAgent's error result, or its success result with places.
\* process_search_and_mail passes email, context, plan and search_result
\* and no message
MailInputs ==
    [email : BOOLEAN, message : BOOLEAN, plan : BOOLEAN, context : BOOLEAN,
     search_result : {"absent", "error", "success"}]

\* lines 47-83: the subscripts read before the SMTP session is opened
MailReads(input_data) ==
    /\ input_data.plan
    /\ input_data.search_result = "success"
    /\ input_data.context
    /\ input_data.email

\* lines 94-98 after send_message: the result reads input_data["message"];
\* the KeyError is caught at line 100
MailReturn(input_data) == IF input_data.message THEN "success" ELSE "error"

nonMail ==
    <<m, search, recommendation, calendar, cache, store, conversation_history,
      req, pc, state, events, consumed, sse, oracle, dispatched, router,
      inserted, turn, last>>

\* process up to the SMTP session: a missing key is caught as an error
MailRender ==
    /\ mail.pc \in {"idle", "returned"}
    /\ mail.calls < MaxInvocations
    /\ \E input_data \in MailInputs :
          mail' = IF MailReads(input_data)
                  THEN [pc |-> "smtp", calls |-> mail.calls + 1,
                        input |-> input_data, sent |-> FALSE,
                        status |-> "none"]
                  ELSE [pc |-> "returned", calls |-> mail.calls + 1,
                        input |-> input_data, sent |-> FALSE,
                        status |-> "error"]
    /\ UNCHANGED nonMail

\* lines 89-105: the SMTP session fails (connect, starttls, login or
\* send_message raises) or hands the message over; then the return
MailSend ==
    /\ mail.pc = "smtp"
    /\ \E ok \in BOOLEAN :
          mail' = [mail EXCEPT
                      !.pc = "returned",
                      !.sent = ok,
                      !.status = IF ok THEN MailReturn(mail.input)
                                 ELSE "error"]
    /\ UNCHANGED nonMail

InitMail ==
    /\ m = NoMerge
    /\ store = [s \in Sessions |-> EmptyMap]
    /\ InitTurn

NextMail == MailRender \/ MailSend

SpecMail == InitMail /\ [][NextMail]_vars

(***************************************************************************)
(* CalendarAgent (core/agents/calendar_agent.py): the one instance the     *)
(* engine registers, called for two sessions whose turns share the event   *)
(* loop, checked under SpecCalendar.  process has one await, of validate,  *)
(* at line 139; a turn is modelled as able to give way there, and runs     *)
(* from there to its return without another await.                         *)
(***************************************************************************)
\* a plan event's payload that carries tips
TippedPlan(itinerary, tips) == [itinerary |-> itinerary, tips |-> tips]

\* what a session stored before its calendar dialogue: its plan, its email
SessionPlan(sid) ==
    IF sid = "s1" THEN TippedPlan(<<1, 1>>, <<"tip of s1">>)
    ELSE TippedPlan(<<1>>, <<"tip of s2">>)

SessionEmail(sid) == Str(IF sid = "s1" THEN "s1@mail" ELSE "s2@mail")

\* the user's replies
Replies == {"yes", "skip", "done"}

\* an assignment that keeps the fields of the first session served
AssignFieldsOnce(self, session_data) ==
    IF ~HasKind(session_data, "plan") \/ ~HasKind(session_data, "email")
       \/ ~IsNone(self.email)
    THEN self
    ELSE [self EXCEPT
             !.tips = LastData(session_data, "plan").tips,
             !.email = LastData(session_data, "email")]

\* lines 148-161: self.tips = plan.get("tips", []) and
\* self.email = session_data["email"][-1]["data"]; a missing plan raises
\* before both, a missing email between them
AssignFields(self, session_data) ==
    IF ~HasKind(session_data, "plan") THEN self
    ELSE LET plan == LastData(session_data, "plan")
             tipped == [self EXCEPT
                           !.tips = IF "tips" \in DOMAIN plan THEN plan.tips
                                    ELSE <<>>]
         IN IF ~HasKind(session_data, "email") THEN tipped
            ELSE [tipped EXCEPT !.email = LastData(session_data, "email")]

nonCalendar ==
    <<m, search, recommendation, mail, cache, conversation_history, req, pc,
      state, events, consumed, sse, oracle, dispatched, router, turn, last>>

\* a turn of session sid reaches process with the user's reply and awaits
\* validate
CalendarEnter(sid) ==
    /\ calendar.turn[sid] = "idle"
    /\ calendar.calls < MaxInvocations
    /\ \E msg \in Replies :
          calendar' = [calendar EXCEPT
                          !.calls = @ + 1,
                          !.turn[sid] = msg,
                          !.crossed[sid] = FALSE]
    /\ UNCHANGED <<store, inserted>>
    /\ UNCHANGED nonCalendar

\* lines 145-257: the rest of process.  _create_calendar_event inserts
\* with calendarId=self.email and _get_relevant_tips reads self.tips
CalendarRun(sid) ==
    /\ calendar.turn[sid] # "idle"
    /\ LET st == [session_id |-> sid, context |-> Str(calendar.turn[sid])]
           self == AssignFields(calendar,
                                get_conversation_history(store, sid))
       IN \E o \in CalendarOutcomes(st, store, <<>>) :
             LET created == [i \in 1..Len(o.inserted) |->
                                [o.inserted[i] EXCEPT !.calendarId = self.email]]
                 offered == ~o.raised /\ o.result.status = "conversation"
             IN /\ store' = o.store
                /\ inserted' = inserted \o created
                /\ calendar' = [self EXCEPT
                       !.turn[sid] = "idle",
                       !.crossed =
                           [x \in DOMAIN @ |->
                               IF x = sid THEN FALSE
                               ELSE calendar.turn[x] # "idle"],
                       !.last =
                           [sid |-> sid,
                            status |-> o.result.status,
                            calendarId |-> IF created # <<>> THEN self.email
                                           ELSE None,
                            tips |-> IF offered THEN self.tips ELSE <<>>,
                            inserted |-> created # <<>>,
                            crossed |-> calendar.crossed[sid],
                            raised |-> o.raised]]
    /\ UNCHANGED nonCalendar

InitCalendar ==
    /\ m = NoMerge
    /\ store = [sid \in StoreKeys |->
                   ("plan" :> <<SessionPlan(sid)>>)
                   @@ ("email" :> <<SessionEmail(sid)>>)]
    /\ InitTurn

NextCalendar ==
    \E sid \in StoreKeys : CalendarEnter(sid) \/ CalendarRun(sid)

SpecCalendar == InitCalendar /\ [][NextCalendar]_vars

(***************************************************************************)
(* RecommendationAgent (core/agents/recommendation_agent.py) called by     *)
(* the turns of one session, checked under SpecRecommendation.  process    *)
(* reads the session at line 122 and awaits the LLM at line 160 or 190; a  *)
(* step runs a turn from one of the two points to the next.                *)
(***************************************************************************)
\* the data of the session's last collected_info event, {} without one
StoredInfo(session_data) ==
    IF HasKind(session_data, "collected_info")
    THEN LastData(session_data, "collected_info").dict
    ELSE EmptyMap

\* collected_info.get("next_step", "preferences")
StepOf(collected_info) ==
    IF "next_step" \in DOMAIN collected_info
    THEN collected_info["next_step"].str
    ELSE "preferences"

nonRecommendation ==
    <<m, search, calendar, mail, cache, conversation_history, req, pc, state,
      events, consumed, sse, oracle, dispatched, router, inserted, turn, last>>

\* lines 118-160/190: turn p reads the session (the read answers or fails
\* and yields {}) and awaits the LLM
RecommendationRead(p) ==
    /\ recommendation.turn[p].pc = "idle"
    /\ recommendation.calls < MaxInvocations
    /\ \E ok \in BOOLEAN :
          recommendation' = [recommendation EXCEPT
              !.calls = @ + 1,
              !.turn[p] = [pc |-> "llm", read_ok |-> ok,
                           session_data |-> GetCall(store, "s1", ok).value]]
    /\ UNCHANGED store
    /\ UNCHANGED nonRecommendation

\* the LLM's reply or failure reaches turn p: the rest of process, with the
\* add_message of line 173 as the store performs it (a read and a put)
RecommendationReply(p) ==
    /\ recommendation.turn[p].pc = "llm"
    /\ LET me == recommendation.turn[p]
           seen == [store EXCEPT !["s1"] = me.session_data]
       IN \E o \in RecommendationOutcomes([session_id |-> "s1"], seen, <<>>),
             read_ok \in BOOLEAN, write_ok \in BOOLEAN :
             LET wrote == o.store # seen
                 item == NewItem(GetCall(store, "s1", read_ok).value,
                                 "collected_info",
                                 LastData(o.store["s1"], "collected_info"))
             IN /\ store' = IF wrote
                            THEN PutCall(store, "s1", item, write_ok).table
                            ELSE store
                /\ recommendation' = [recommendation EXCEPT
                       !.turn[p] = NoRecommendation.turn[p],
                       !.last = [step |-> StepOf(StoredInfo(me.session_data)),
                                 read_ok |-> me.read_ok,
                                 raised |-> o.raised,
                                 wrote |-> wrote]]
    /\ UNCHANGED nonRecommendation

\* the session is cleared (clear_conversation)
RecommendationClear ==
    /\ store["s1"] # EmptyMap
    /\ store' = clear_conversation(store, "s1")
    /\ recommendation' = [recommendation EXCEPT !.last = NoRecommendation.last]
    /\ UNCHANGED nonRecommendation

InitRecommendation ==
    /\ m = NoMerge
    /\ store = [s \in Sessions |-> EmptyMap]
    /\ InitTurn

NextRecommendation ==
    \/ RecommendationClear
    \/ \E p \in Procs : RecommendationRead(p) \/ RecommendationReply(p)

SpecRecommendation == InitRecommendation /\ [][NextRecommendation]_vars

(***************************************************************************)
(* Claims about the context merger (SpecMerge).                            *)
(***************************************************************************)
\* the keys of O whose value is non-empty
NonEmptyKeys(O) == {k \in DOMAIN O : Truthy(O[k])}

\* C4 as stated: for every key with a non-empty O-value the merged value is
\* O's value; for every key of B that is absent or empty in O the merged
\* value is B's value.
C4_PrecedenceAsStated ==
    m.pc # "in" =>
        /\ \A k \in NonEmptyKeys(m.O1) :
              k \in DOMAIN m.r1 /\ m.r1[k] = m.O1[k]
        /\ \A k \in DOMAIN m.B \ NonEmptyKeys(m.O1) :
              k \in DOMAIN m.r1 /\ m.r1[k] = m.B[k]

\* right-biased merge-if-present, one level after the other: where B and O
\* both hold a mapping under a key the rule applies inside it; elsewhere a
\* non-empty O-value wins and B's value is kept otherwise
RECURSIVE Precedence(_, _, _)
Precedence(B, O, R) ==
    /\ \A k \in NonEmptyKeys(O) :
          /\ k \in DOMAIN R
          /\ IF k \in DOMAIN B /\ IsDict(B[k]) /\ IsDict(O[k])
             THEN IsDict(R[k]) /\ Precedence(B[k].dict, O[k].dict, R[k].dict)
             ELSE R[k] = O[k]
    /\ \A k \in DOMAIN B \ NonEmptyKeys(O) :
          k \in DOMAIN R /\ R[k] = B[k]

\* C4 amended: merge precedence of update_dict holds key by key, except that
\* under a key where both B and O hold a mapping the merged value is not
\* O's value but the merge of the two mappings by the same rule.
C4_Precedence == m.pc # "in" => Precedence(m.B, m.O1, m.r1)

\* a merge in which a nested mapping of B met a non-empty one of O, and a
\* value of B survived an empty O-value
C4_Witness ==
    /\ m.pc = "merged"
    /\ \E k \in NonEmptyKeys(m.O1) \cap DOMAIN m.B :
          IsDict(m.B[k]) /\ IsDict(m.O1[k]) /\ m.r1[k] # m.O1[k]
    /\ \E k \in DOMAIN m.O1 \cap DOMAIN m.B :
          ~Truthy(m.O1[k]) /\ ~IsDict(m.B[k])

\* C5: merging the empty overlay into a non-empty mapping X returns X, and
\* the object passed as X is what it was before the call.
C5_EmptyOverlayIdentity ==
    (m.pc # "in" /\ m.O1 = EmptyMap /\ m.B # EmptyMap) =>
        (m.r1 = m.B /\ m.arg1 = m.B)

\* the empty overlay was merged into a mapping that holds a nested mapping
C5_Witness ==
    /\ m.pc = "merged"
    /\ m.O1 = EmptyMap
    /\ \E k \in DOMAIN m.B : IsDict(m.B[k]) /\ Truthy(m.B[k])
    /\ "destination" \in DOMAIN m.B

\* C6 as stated: folding two overlays left gives the mapping that merging
\* the overlays first gives.
C6_Associative == m.pc = "folded" => m.r2 = m.r3

(***************************************************************************)
(* Claims about the caller-facing stream (SpecStream).                     *)
(***************************************************************************)
\* positions of the completion marker among the frames emitted so far
CompletePositions == {i \in 1..Len(sse) : sse[i] = CompleteFrame}

\* C3: a stream that has run to its end emitted exactly one completion
\* marker, as its last frame, whether the producer returned or raised and
\* whatever it yielded; while the stream runs no marker has been emitted, so
\* nothing follows the marker.
C3_OneCompletionLast ==
    req.entry = "api" =>
        IF pc = "done"
        THEN CompletePositions = {Len(sse)} /\ sse # <<>>
        ELSE CompletePositions = {}

\* a stream that delivered a data frame, then met a fault, and ended
C3_Witness ==
    /\ req.entry = "api"
    /\ pc = "done"
    /\ Len(sse) >= 3
    /\ sse[1].event = "message"
    /\ sse[Len(sse) - 1] = ErrorFrame

\* positions of the error event among the frames emitted so far
ErrorPositions == {i \in 1..Len(sse) : sse[i] = ErrorFrame}

\* C11, the step: a fault that reaches stream_response is answered by the
\* error event followed by the completion marker, and the stream is over.
C11_Step ==
    (req.entry = "api" /\ pc = "fault") =>
        /\ sse' = sse \o <<ErrorFrame, CompleteFrame>>
        /\ pc' = "done"

\* C11, the sequence: the stream never ends by raising to its caller, it
\* holds at most one error event, and the only frame after the error event
\* is the completion marker that ends the stream.
C11_Sequence ==
    req.entry = "api" =>
        /\ pc # "raised"
        /\ Cardinality(ErrorPositions) <= 1
        /\ \A i \in ErrorPositions :
              /\ i = Len(sse) - 1
              /\ sse[Len(sse)] = CompleteFrame
              /\ pc = "done"

\* C11: any fault raised while a turn is streamed is converted by
\* stream_response into one error event carrying the message and the stack
\* trace, after which the stream terminates; the fault does not propagate to
\* the caller of the stream and no success or need_more_info event follows
\* the error event.
C11_FaultBecomesErrorEvent == [][C11_Step]_vars /\ []C11_Sequence

\* the producer yielded a success and a need_more_info chunk, both were
\* delivered, then it raised, and the stream ended
C11_Witness ==
    /\ req.entry = "api"
    /\ pc = "done"
    /\ Len(events) = 2
    /\ consumed = 2
    /\ events[1].status = "success" /\ events[1].result.json
    /\ events[2].status = "need_more_info" /\ events[2].result.json
    /\ sse = <<Frame("message", "success"), Frame("message", "need_more_info"),
               ErrorFrame, CompleteFrame>>

(***************************************************************************)
(* Claims about the turn engine (Spec).                                    *)
(***************************************************************************)
\* the field has a value other than None in the context
PresentNonNull(field, context) ==
    IF field \in Dotted
    THEN LET parent == DotSplit[field][1]
             child == DotSplit[field][2]
         IN /\ parent \in DOMAIN context
            /\ IsDict(context[parent])
            /\ child \in DOMAIN context[parent].dict
            /\ ~IsNone(context[parent].dict[child])
    ELSE field \in DOMAIN context /\ ~IsNone(context[field])

\* the chunks of this turn that carry a result built by the router
RouterChunks == {i \in 1..Len(events) : events[i].result.origin = "router"}

Fields(q) == {q[i] : i \in 1..Len(q)}

\* C1 as stated: when the router emits need_more_info from a parsed oracle
\* decision, no field of the emitted missing_fields list is present
\* (non-null) in the current context or in the oracle's extracted_context.
C1_EmittedIsReconciled ==
    router.branch = "need_more_info" =>
        \A i \in RouterChunks :
            \A f \in Fields(events[i].result.missing_fields) :
                /\ ~PresentNonNull(f, router.current_context)
                /\ ~PresentNonNull(f, router.extracted_context)

\* C2: no handler name appears twice in the turn's workflow history,
\* whatever lists the oracle suggests.
C2_NoHandlerTwice ==
    \A i, j \in 1..Len(state.workflow_history) :
        i # j => state.workflow_history[i].agent # state.workflow_history[j].agent

\* a turn in which recommendation ran, the oracle's next_steps list named
\* recommendation again and then mail, and only mail was run
C2_Witness ==
    /\ pc = "done"
    /\ state.workflow_history = <<HistoryRecord("recommendation", state),
                                  HistoryRecord("mail", state)>>

\* the planner's node has just returned a success result
PlannerSucceeded ==
    /\ pc = "determine_next_steps"
    /\ state.result.origin = "planner"
    /\ state.result.status = "success"

\* the chunks of this turn that carry the planner's success result
PlannerChunks ==
    {i \in 1..Len(events) : /\ events[i].result.origin = "planner"
                            /\ events[i].result.status = "success"}

\* the turn is over or about to be handed back to the caller
TurnOver == pc \in {"end", "done"}

\* C7, the step: when the planner has returned success, the continuation
\* step leaves the oracle alone, makes the result a need_more_info asking for
\* `email`, selects no next handler and ends the turn.
C7_Step ==
    PlannerSucceeded =>
        /\ oracle' = oracle
        /\ state'.result = EmailRequest(state.context)
        /\ state'.next_steps = <<>>
        /\ pc' = "end"

\* C7, the sequence: in a finished turn the planner's success event is
\* followed by the need_more_info event for `email` and by nothing else, and
\* the planner is the last handler of the workflow history.
C7_Sequence ==
    TurnOver =>
        \A i \in PlannerChunks :
            /\ Len(events) = i + 1
            /\ events[i + 1] =
                   Chunk("need_more_info", EmailRequest(state.context), FALSE)
            /\ state.workflow_history[Len(state.workflow_history)].agent
                   = "planner"

\* C7: whenever the planner returns success the continuation step pauses the
\* turn asking for `email` without calling the oracle, and the turn's events
\* end with the planner's success followed by that request.
C7_PlannerPauses == [][C7_Step]_vars /\ []C7_Sequence

\* a finished turn in which the planner succeeded after another handler
C7_Witness ==
    /\ pc = "done"
    /\ PlannerChunks # {}
    /\ Len(state.workflow_history) = 2
    /\ state.result = EmailRequest(state.context)

\* the running turn follows, in the same session, a turn that paused after
\* the planner's success, and its message looks like an address
EmailFollowUp ==
    /\ req.entry = "engine"
    /\ last.planned
    /\ last.session_id = req.session_id
    /\ HasAt(req.message) /\ HasDot(req.message)

\* C8 as stated: in the turn after the planner's success a message with "@"
\* and "." is captured: the delivery task is dispatched with the address,
\* the address is appended to the session as an `email` event, and the
\* oracle is not called.
C8_EmailCaptured ==
    (EmailFollowUp /\ pc \in {"done", "raised"}) =>
        LET session_data == get_conversation_history(store, req.session_id)
        IN /\ oracle = 0
           /\ \E i \in 1..Len(dispatched) : dispatched[i].email = req.message
           /\ HasKind(session_data, "email")
           /\ LastData(session_data, "email") = Str(req.message)

\* C10 as stated: a request to stream_response with a non-empty message and
\* a session key reaches the router with that session key, and its stream
\* has no error event caused by a missing session key.
C10_SessionKeyHandedOver ==
    (req.entry = "api" /\ req.message # "" /\ req.session_id # NoSession) =>
        /\ pc # "fault"
        /\ \A i \in 1..Len(sse) : sse[i] # ErrorFrame
        /\ pc = "analyze_intent" => state.session_id = req.session_id

\* the running turn follows, in the same session, a turn whose router asked
\* for planner fields, and the oracle's decision for this turn's message was
\* parsed and its extracted values supply every field asked for
Resent ==
    /\ req.entry = "engine"
    /\ last.asked # <<>>
    /\ last.session_id = state.session_id
    /\ router.branch \in {"invoke", "need_more_info", "recommendation"}
    /\ \A f \in Fields(last.asked) :
          PresentNonNull(f, router.extracted_context)

\* outcome (b) for the planner: it is the current handler, the router emitted
\* nothing, and once the turn is over the planner has run
PlannerInvoked ==
    /\ router.branch = "invoke"
    /\ state.current_agent = "planner"
    /\ RouterChunks = {}
    /\ pc \in {"end", "done", "raised"} =>
          "planner" \in ExecutedAgents(state.workflow_history)

\* C9 as stated: a follow-up whose extracted values supply every field the
\* previous turn asked for reaches outcome (b) for the planner, whatever
\* else the oracle's reply says.
C9_ResentAsStated == Resent => PlannerInvoked

\* the oracle's decision names the planner and lists as missing no field
\* other than those the previous turn asked for
PlannerDecisionNothingNew ==
    /\ router.primary_intent = "planner"
    /\ Fields(router.missing_fields) \subseteq Fields(last.asked)

\* C9 amended: a follow-up whose extracted values supply every field the
\* previous turn asked for reaches outcome (b) for the planner, even if the
\* oracle's reply still lists those fields as missing, provided the reply
\* names the planner and lists no other field as missing.
C9_Resent == (Resent /\ PlannerDecisionNothingNew) => PlannerInvoked

\* a finished follow-up turn whose reply still listed a supplied field as
\* missing and in which the planner ran
C9_Witness ==
    /\ Resent
    /\ PlannerDecisionNothingNew
    /\ router.missing_fields # <<>>
    /\ pc = "done"
    /\ "planner" \in ExecutedAgents(state.workflow_history)

\* the chunks of this turn that carry a handler's result of status 'error'
HandlerErrorChunks ==
    {i \in 1..Len(events) : /\ events[i].result.origin \in Agents
                            /\ events[i].result.status = "error"}

\* C12 as stated: a handler's result of status 'error' is carried by an
\* event of status 'error', never by a 'success' event, and the handler that
\* returned it is the last one invoked in the turn.
C12_HandlerErrorIsErrorEvent ==
    \A i \in HandlerErrorChunks :
        /\ events[i].status = "error"
        /\ state.workflow_history[Len(state.workflow_history)].agent
               = events[i].result.origin

\* a step of a handler's node does not end in a fault
C13_Step == pc \in Agents => pc' # "fault"

\* C13 as stated: no handler's process raises to the turn engine; a step of
\* a handler's node never ends in a fault.
C13_HandlersNeverRaise == [][C13_Step]_vars

\* C14 as stated: whenever the router's reconciled missing-fields list is
\* non-empty, whatever handler the oracle named, the turn emits the router's
\* need_more_info with the merged context, no handler is invoked in the
\* turn, and the session's latest `context` event is the merged context.
C14_MissingFieldsPause ==
    router.reconciled # <<>> =>
        LET session_data == get_conversation_history(store, state.session_id)
        IN /\ RouterChunks # {}
           /\ \A i \in RouterChunks :
                 /\ events[i].status = "need_more_info"
                 /\ events[i].result.current_context = state.context
           /\ state.workflow_history = <<>>
           /\ pc \notin Agents
           /\ HasKind(session_data, "context")
           /\ LastData(session_data, "context") = state.context

\* C15: when the oracle's reply is not JSON, every event of the turn is a
\* need_more_info built by the router whose missing fields are
\* departure_location, departure_date, destination, duration and
\* preferences; no handler is invoked, and the turn goes through the
\* continuation step to its end without a fault or an error event.
C15_UnparsedReplyPauses ==
    router.branch = "unparsed" =>
        /\ events # <<>>
        /\ \A i \in 1..Len(events) :
              /\ events[i].status = "need_more_info"
              /\ events[i].result.origin = "router"
              /\ Fields(events[i].result.missing_fields) =
                    {"departure_location", "departure_date", "destination",
                     "duration", "preferences"}
        /\ state.workflow_history = <<>>
        /\ pc \in {"determine_next_steps", "end", "done"}
        /\ pc \in {"end", "done"} => state.next_steps = <<>>

\* a finished turn whose oracle reply was not JSON
C15_Witness ==
    /\ router.branch = "unparsed"
    /\ pc = "done"
    /\ state.result.missing_fields = FallbackFields
    /\ oracle = 1

\* a session that holds events holds events after the step
C17_Step == \A s \in Sessions : store[s] # EmptyMap => store'[s] # EmptyMap

\* C17 as stated: no step of turn processing removes a session's log; a
\* session that holds events holds events after every step of a turn.
C17_NoTurnStepClears == [][C17_Step]_vars

(***************************************************************************)
(* Claims about the cache client (SpecStore).                              *)
(***************************************************************************)
IsPrefix(a, b) == Len(a) <= Len(b) /\ SubSeq(b, 1, Len(a)) = a

\* every list of the table is a prefix of the list the other table holds
\* under the same session and kind
Extends(tbl, tbl2) ==
    \A k \in DOMAIN tbl : \A kind \in DOMAIN tbl[k] :
        kind \in DOMAIN tbl2[k] /\ IsPrefix(tbl[k][kind], tbl2[k][kind])

\* the step completes a call of process p
Completes(p) == cache'.proc[p].last # cache.proc[p].last

\* the step is a call of clear_conversation
ClearStep == \E p \in Procs : Completes(p) /\ cache'.proc[p].last.op = "clear"

\* the step is the put of an add_message during which another process wrote
\* the same session
OverlappedPut ==
    \E p \in Procs : /\ Completes(p)
                     /\ cache'.proc[p].last.op = "add"
                     /\ cache'.proc[p].last.overlap # {}

\* every step that is not a clear keeps every event of the table, in place
C16_Step == ClearStep \/ OverlappedPut \/ Extends(store, store')

\* C16 as stated: under any sequence of add_message calls, the store's read
\* failing or not, every event in a session's log stays in the log with its
\* payload until clear_conversation is called; add_message only extends the
\* per-kind lists.
C16_AppendOnly == [][C16_Step]_vars

\* the event whose data is id is in the session's list of the kind
InLog(tbl, sid, kind, id) ==
    /\ kind \in DOMAIN tbl[sid]
    /\ \E i \in 1..Len(tbl[sid][kind]) : tbl[sid][kind][i] = id

\* the last call of the process was an add_message that met no store failure
AddedCleanly(p) ==
    /\ cache.proc[p].pc = "idle"
    /\ cache.proc[p].last.op = "add"
    /\ cache.proc[p].last.read_ok
    /\ cache.proc[p].last.write_ok

\* C18 as stated: when two add_message calls for one session ran
\* concurrently and both completed without a store failure, both events are
\* in the session's log.
C18_BothAppended ==
    \A p, q \in Procs :
        (/\ p # q
         /\ AddedCleanly(p) /\ AddedCleanly(q)
         /\ cache.proc[p].last.sid = cache.proc[q].last.sid
         /\ cache.proc[p].last.id \in cache.proc[q].last.overlap) =>
            /\ InLog(store, cache.proc[p].last.sid, cache.proc[p].last.kind,
                     cache.proc[p].last.id)
            /\ InLog(store, cache.proc[q].last.sid, cache.proc[q].last.kind,
                     cache.proc[q].last.id)

\* C19, the step: an add_message or clear_conversation whose write the store
\* rejected leaves the table as it was.
C19_Step ==
    \A p \in Procs :
        (/\ Completes(p)
         /\ cache'.proc[p].last.op \in {"add", "clear"}
         /\ ~cache'.proc[p].last.write_ok) => store' = store

\* C19, the calls: no call of the cache client raises, and a
\* get_conversation_history whose read failed returned the empty snapshot.
C19_Returns ==
    \A p \in Procs :
        /\ ~cache.proc[p].last.raised
        /\ (cache.proc[p].last.op = "get" /\ ~cache.proc[p].last.read_ok) =>
              cache.proc[p].last.returned = EmptyMap

\* C19: store failures are never surfaced: get_conversation_history returns
\* the empty snapshot on a read failure and does not raise; add_message and
\* clear_conversation do not raise on a store failure and the caller goes
\* on with nothing persisted.
C19_StoreFailuresSwallowed == [][C19_Step]_vars /\ []C19_Returns

\* a read of a session that holds events failed and returned the empty
\* snapshot, and the other process's add_message met a rejected write
C19_Witness ==
    /\ cache.proc["p1"].last.op = "get"
    /\ ~cache.proc["p1"].last.read_ok
    /\ ~cache.proc["p1"].last.absent
    /\ cache.proc["p1"].last.returned = EmptyMap
    /\ cache.proc["p2"].last.op = "add"
    /\ ~cache.proc["p2"].last.write_ok

\* C20, the step: a clear_conversation(k) that the table carried out leaves
\* k without events and every other session as it was, and changes nothing
\* when k had no events; a session without events gets events only by the
\* put of an add_message for it, and until then a get_conversation_history
\* that the table answered returns the empty snapshot.
C20_Step ==
    /\ \A p \in Procs :
          (/\ Completes(p)
           /\ cache'.proc[p].last.op = "clear"
           /\ cache'.proc[p].last.write_ok) =>
              LET k == cache'.proc[p].last.sid
              IN /\ ~cache'.proc[p].last.raised
                 /\ store'[k] = EmptyMap
                 /\ \A o \in StoreKeys \ {k} : store'[o] = store[o]
                 /\ store[k] = EmptyMap => store' = store
    /\ \A k \in StoreKeys :
          (store[k] = EmptyMap /\ store'[k] # EmptyMap) =>
              \E q \in Procs : /\ cache.proc[q].pc = "put"
                               /\ cache.proc[q].sid = k
                               /\ Completes(q)
    /\ \A p \in Procs :
          (/\ Completes(p)
           /\ cache'.proc[p].last.op = "get"
           /\ cache'.proc[p].last.read_ok
           /\ store[cache'.proc[p].last.sid] = EmptyMap) =>
              cache'.proc[p].last.returned = EmptyMap

\* C20, idempotence: clearing a cleared session gives the same table
C20_Idempotent ==
    \A k \in StoreKeys :
        clear_conversation(clear_conversation(store, k), k)
            = clear_conversation(store, k)

C21_OracleFaultBecomesNeedMoreInfo ==
    router.branch = "oracle_raised" =>
        /\ pc \notin {"fault", "raised"}
        /\ state.result.status = "need_more_info"
        /\ state.result.missing_fields # <<>>

\* C22 as stated: when the session holds a plan and the message is an
\* address, the router returns with current_agent 'mail', the address under
\* context['email'] and next_steps ['mail'].
C22_AddressRoutesToMail ==
    router.branch = "capture" =>
        /\ pc \notin {"fault", "raised"}
        /\ state.current_agent = "mail"
        /\ state.next_steps = <<"mail">>
        /\ IsDict(state.context)
        /\ Get(state.context.dict, "email") = Str(state.msg)

\* the router has just chosen the planner, with nothing reported missing, in
\* a turn whose request supplied a context with every planner field
SuppliedAndChosen ==
    /\ req.entry = "engine"
    /\ req.context = SuppliedContext
    /\ router.branch = "invoke"
    /\ router.primary_intent = "planner"
    /\ router.missing_fields = <<>>
    /\ pc = "planner"

\* C23 as stated: when the request's context holds every planner field and
\* the oracle selects the planner with nothing missing, the returned state
\* has current_agent 'planner' and its context keeps the supplied
\* destination, duration and preferences.
C23_SuppliedContextIsSeed ==
    SuppliedAndChosen =>
        /\ state.current_agent = "planner"
        /\ \A f \in {"destination", "duration", "preferences"} :
              Get(state.context.dict, f) = SuppliedContext.dict[f]

\* the required planner fields that neither the stored context, nor the
\* request's context, nor the values extracted from the message hold
AbsentRequired ==
    {f \in {"departure_location", "departure_date", "duration"} :
        /\ ~PresentNonNull(f, router.current_context)
        /\ ~PresentNonNull(f, req.context.dict)
        /\ ~PresentNonNull(f, router.extracted_context)}

\* C24 as stated: when required planner fields are absent, a decision that
\* names the planner ends in a need_more_info of the router whose
\* missing_fields holds every absent required field, and the planner is not
\* made the current handler, whatever the oracle's reply lists as missing.
C24_AbsentRequiredAsked ==
    (router.primary_intent = "planner" /\ AbsentRequired # {}) =>
        /\ router.branch = "need_more_info"
        /\ RouterChunks # {}
        /\ \A i \in RouterChunks :
              AbsentRequired \subseteq Fields(events[i].result.missing_fields)

\* the field has a value in the context that is neither null nor empty
PresentNonEmpty(field, context) ==
    IF field \in Dotted
    THEN LET parent == DotSplit[field][1]
             child == DotSplit[field][2]
         IN /\ parent \in DOMAIN context
            /\ IsDict(context[parent])
            /\ child \in DOMAIN context[parent].dict
            /\ Truthy(context[parent].dict[child])
    ELSE field \in DOMAIN context /\ Truthy(context[field])

\* C26 as stated: a field the oracle lists as missing stays in the
\* reconciled list unless the current context or the extracted values hold
\* a value for it that is neither null nor empty.
C26_EmptyCountsAsAbsent ==
    \A f \in Fields(router.missing_fields) :
        (/\ ~PresentNonEmpty(f, router.current_context)
         /\ ~PresentNonEmpty(f, router.extracted_context)) =>
            f \in Fields(router.reconciled)

\* the message holds "@" and "."
AtAndDot(msg) == msg = "user@example.com"

\* a pending-capture condition holds for the turn that is being routed
PendingCapture ==
    LET session_data == store[state.session_id]
        holds(kind) == kind \in DOMAIN session_data /\ session_data[kind] # <<>>
    IN \/ holds("plan") /\ AtAndDot(state.msg)
       \/ holds("email") /\ holds("plan")

\* the router's step under a pending-capture condition leaves the oracle alone
C27_Step == (pc = "analyze_intent" /\ PendingCapture) => oracle' = oracle

C28_ConfidenceUnused ==
    pc = "analyze_intent" =>
        LET sid == state.session_id
            current_context ==
                CurrentContext(get_conversation_history(store, sid))
        IN \A reply \in RouterReplies : \A c \in Confidences :
              ClassifyOutcome([reply EXCEPT !.confidence = c], sid,
                              current_context, state, store)
                  = ClassifyOutcome(reply, sid, current_context, state, store)

\* the router of a second turn decided for the planner from a parsed reply,
\* over a context stored by the first turn
C28_Witness ==
    /\ turn = 2
    /\ router.branch = "invoke"
    /\ router.primary_intent = "planner"
    /\ router.current_context # EmptyMap
    /\ router.extracted_context # EmptyMap
    /\ pc = "planner"

\* C29, the step: the continuation step over a result whose status is not
\* 'success' leaves the oracle and the result alone, empties next_steps and
\* ends the turn.
C29_Step ==
    (/\ pc = "determine_next_steps"
     /\ state.result # NoResult
     /\ state.result.status # "success") =>
        /\ oracle' = oracle
        /\ state'.next_steps = <<>>
        /\ state'.result = state.result
        /\ pc' = "end"

\* C29: in the continuation step, a preceding result of any status other
\* than 'success' ends the turn unchanged, without consulting the oracle.
C29_NonSuccessEndsTurn == [][C29_Step]_vars

\* a finished turn whose only handler, the calendar, answered 'conversation'
C29_Witness ==
    /\ pc = "done"
    /\ state.result.status = "conversation"
    /\ state.workflow_history = <<HistoryRecord("calendar", state)>>
    /\ state.next_steps = <<>>
    /\ oracle = 0

(***************************************************************************)
(* Claims about the search handler (SpecSearch).                           *)
(***************************************************************************)
\* a call of the LLM or a place search has failed
AnyFailure ==
    \/ search.intent = "failed"
    \/ search.summary = "failed"
    \/ \E i \in DOMAIN search.loc :
          \/ search.loc[i].pc = "raised"
          \/ search.loc[i].retry_count > 0
          \/ \E j \in DOMAIN search.loc[i].places :
                search.loc[i].places[j].pc = "failed"

\* C25, as stated: process never raises, and it returns a result with status
\* 'error' and an 'error' key for an input without a plan and after any
\* failure of an LLM call or of a place search.
C25_AnyFailureIsError ==
    /\ search.pc # "raised"
    /\ (search.pc = "returned" /\ (~search.input.plan \/ AnyFailure)) =>
          /\ search.result.status = "error"
          /\ search.result.error # AbsentKey

\* a failure that reaches the except clause of process: the intent analysis
\* or the summary fails, or a place search fails max_retries times
EscapedFailure ==
    \/ search.intent = "failed"
    \/ search.summary = "failed"
    \/ \E i \in DOMAIN search.loc : search.loc[i].pc = "raised"

\* C25, amended: process never raises; it returns a result with status
\* 'error' and an 'error' key for an input without a plan, after a failure of
\* the intent analysis or of the summary, and after a place search that has
\* failed max_retries times; a place search that succeeds on a later attempt
\* and an enrichment call that fails do not make the result an error: the
\* result is 'success' exactly if the plan is there, both calls of process
\* succeed and every location's task returns.
C25_EscapedFailureIsError ==
    /\ search.pc # "raised"
    /\ search.pc = "returned" =>
          /\ search.result.status \in {"success", "error"}
          /\ search.result.status = "error" <=>
                search.result.error # AbsentKey
          /\ (~search.input.plan \/ EscapedFailure) =>
                search.result.status = "error"
          /\ search.result.status = "success" <=>
                /\ search.input.plan
                /\ search.intent = "ok"
                /\ search.summary = "ok"
                /\ \A i \in DOMAIN search.loc : search.loc[i].pc = "done"

\* process has returned an error after a place search failed for the last time
C25_Witness ==
    /\ search.pc = "returned"
    /\ search.result.status = "error"
    /\ search.result.error = "Search failed"
    /\ \E i \in DOMAIN search.loc :
          search.loc[i].pc = "raised" /\ search.loc[i].retry_count = max_retries

InFlightSearch == { i \in DOMAIN search.loc : search.loc[i].pc = "request" }
InFlightLlm ==
    { ij \in (1..MaxLocations) \X (1..display) :
         /\ ij[1] \in DOMAIN search.loc
         /\ ij[2] \in DOMAIN search.loc[ij[1]].places
         /\ search.loc[ij[1]].places[ij[2]].pc = "call" }
HeldNaver == { i \in DOMAIN search.loc : search.loc[i].holds }
HeldLlm ==
    { ij \in (1..MaxLocations) \X (1..display) :
         /\ ij[1] \in DOMAIN search.loc
         /\ ij[2] \in DOMAIN search.loc[ij[1]].places
         /\ search.loc[ij[1]].places[ij[2]].holds }

\* C30: at most 3 place-search requests and at most 3 enrichment calls are
\* in flight at any time, whatever the number of locations and places; no
\* permit is leaked (each semaphore's value plus the permits held is 3, after
\* successes and after failures), and a permit is held only by a request or
\* a call in flight, so not by a search that sleeps before its retry.
C30_PermitsBoundInFlight ==
    /\ Cardinality(InFlightSearch) <= Permits
    /\ Cardinality(InFlightLlm) <= Permits
    /\ search.naver_semaphore + Cardinality(HeldNaver) = Permits
    /\ search.llm_semaphore + Cardinality(HeldLlm) = Permits
    /\ HeldNaver = InFlightSearch
    /\ HeldLlm = InFlightLlm
    /\ \A i \in DOMAIN search.loc :
          search.loc[i].pc = "sleep" => ~search.loc[i].holds

\* every search permit is taken, one of them by a request sent again after a
\* failure, while a fourth task waits for a permit and another sleeps
C30_Witness ==
    /\ search.naver_semaphore = 0
    /\ \E i \in DOMAIN search.loc : search.loc[i].pc = "acquire"
    /\ \E i \in DOMAIN search.loc :
          search.loc[i].pc = "request" /\ search.loc[i].retry_count > 0

\* C31: the failure of one fanned-out unit (a location's place search that
\* has used up its retries, or a place's enrichment call) does not abort the
\* handler: with a plan and with the intent analysis and the summary
\* succeeding, process returns success.
C31_UnitFailureKeepsSuccess ==
    (/\ search.pc = "returned"
     /\ search.input.plan
     /\ search.intent = "ok"
     /\ search.summary # "failed") => search.result.status = "success"

\* one step of _execute_search_with_retry for location i, from a request in
\* flight or from any other position
RetryStep(i) ==
    LET a == search.loc[i]
        b == search'.loc[i]
    IN /\ a.pc = "request" =>
             \/ b.pc \in {"enrich", "done"}
             \/ b.pc = "request" /\ b = a
             \/ /\ b.pc = "sleep"
                /\ b.retry_count = a.retry_count + 1
                /\ b.retry_count < 3
             \/ /\ b.pc = "raised"
                /\ b.retry_count = 3
                /\ a.retry_count = 2
       /\ b.pc = "sleep" => a.pc \in {"request", "sleep"}
       /\ b.pc = "request" => a.pc \in {"start", "acquire", "sleep", "request"}
       /\ a.pc \in {"enrich", "done"} => b.pc \in {"enrich", "done"}
       /\ a.pc = "raised" => b = a
       /\ b.pc = "request" => b.retry_count + 1 <= 3

C39_Step ==
    \A i \in DOMAIN search.loc : i \in DOMAIN search'.loc => RetryStep(i)

\* C39: _execute_search_with_retry makes at most 3 attempts; the first
\* attempt that succeeds ends it with that result and no attempt follows;
\* the third failure is raised, and no attempt ends it without a result or
\* an exception; it sleeps only after a failed attempt that is not the third.
C39_RetryBounded == [][C39_Step]_vars

\* a third attempt is in flight while another location's search has failed
\* for the third time
C39_Witness ==
    /\ \E i \in DOMAIN search.loc :
          search.loc[i].pc = "request" /\ search.loc[i].retry_count = 2
    /\ \E i \in DOMAIN search.loc :
          search.loc[i].pc = "raised" /\ search.loc[i].retry_count = 3

(***************************************************************************)
(* Claims about the engine's loop, its events and its routing (Spec).      *)
(***************************************************************************)
Nodes == Agents \cup {"analyze_intent", "determine_next_steps"}

\* a bound on the node runs a turn has left at node p with history h: the
\* router comes first, then a handler and the continuation step alternate
Rank(p, h) ==
    IF p = "analyze_intent" THEN 2 * Cardinality(Agents) + 2
    ELSE IF p = "determine_next_steps"
    THEN 2 * (Cardinality(Agents) - Len(h)) + 1
    ELSE IF p \in Agents THEN 2 * (Cardinality(Agents) - Len(h))
    ELSE 0

C33_Step ==
    /\ (pc \in Nodes /\ pc' # pc) =>
          /\ Rank(pc', state'.workflow_history) <
                Rank(pc, state.workflow_history)
          /\ pc' # "analyze_intent"
          /\ (pc = "determine_next_steps" /\ pc' \in Agents) =>
                pc' \notin ExecutedAgents(state.workflow_history)
    /\ (pc \in Nodes /\ pc' = pc) =>
          state'.workflow_history = state.workflow_history

C33_Bounded ==
    /\ Len(state.workflow_history) <= Cardinality(Agents)
    /\ Rank(pc, state.workflow_history) >= 0

\* C33: a turn cannot cycle: every run of a node takes the turn to a node
\* of lower rank or out of the graph, never back to the router, and from the
\* continuation step only to a handler that has not run in this turn; so a
\* turn ends or pauses after at most five handler invocations.
C33_LoopTerminates == [][C33_Step]_vars /\ []C33_Bounded

\* the continuation step has sent the turn on to a second handler after the
\* router paused nothing and the first handler succeeded
C33_Witness ==
    /\ pc = "mail"
    /\ Len(state.workflow_history) = 1
    /\ state.workflow_history[1].agent = "recommendation"
    /\ oracle = 2

\* the chunks of the running turn that carry a result made by `origin`
ChunksOf(origin) ==
    {i \in 1..Len(events) : events[i].result.origin = origin}

\* C34: a router decision and a handler's result are each emitted once in
\* the turn's stream: the router's need_more_info result is in one chunk,
\* and a handler's result is not in a second chunk after the continuation
\* step has run.
C34_EachResultOnce ==
    \A origin \in Agents \cup {"router"} : Cardinality(ChunksOf(origin)) <= 1

\* C35: a router step that merges the extracted values into the context
\* (need_more_info, a chosen handler, recommendation) leaves the merged
\* context as the session's latest context event.
C35_Step ==
    (/\ pc = "analyze_intent"
     /\ router'.branch \in {"need_more_info", "invoke", "recommendation"}
     /\ router'.extracted_context # EmptyMap
     /\ router' # router) =>
        /\ HasKind(store'[state.session_id], "context")
        /\ LastData(store'[state.session_id], "context") = state'.context

C35_MergedContextStored == [][C35_Step]_vars

\* C36: a decision whose primary_intent is not a registered handler does
\* not take the turn to a handler or to a fault of the graph; the turn
\* goes on to the continuation step with a need_more_info or error result.
C36_Step ==
    (/\ pc = "analyze_intent"
     /\ router' # router
     /\ router'.branch \in {"need_more_info", "invoke", "recommendation"}
     /\ router'.primary_intent \notin Agents) =>
        /\ pc' = "determine_next_steps"
        /\ state'.result.status \in {"need_more_info", "error"}

C36_UnknownHandlerNotInvoked == [][C36_Step]_vars

(***************************************************************************)
(* Claims about the delivery handler (SpecMail).                           *)
(***************************************************************************)
\* C40: MailAgent.process returns 'success' exactly when the message was
\* handed to the SMTP server, and 'error' only when nothing was sent, for
\* every request shape, the delivery task's included.
C40_SuccessIffSent ==
    mail.pc = "returned" =>
        /\ mail.status \in {"success", "error"}
        /\ mail.status = "success" <=> mail.sent

(***************************************************************************)
(* Claims about the calendar handler (SpecCalendar).                       *)
(***************************************************************************)
\* C32: with the turns of two sessions interleaved on the one CalendarAgent,
\* an event confirmed in a session is inserted into the calendar of that
\* session's own email, and an offer is annotated from that session's own
\* tips, never from the other session's.
C32_OwnEmailAndTips ==
    LET call == calendar.last
    IN call.sid \in StoreKeys =>
          /\ call.inserted => call.calendarId = SessionEmail(call.sid)
          /\ call.status = "conversation" =>
                call.tips = SessionPlan(call.sid).tips

\* a confirmed event of s1 inserted by a turn that gave way to a turn of
\* s2 between its entry and its insert
C32_Witness ==
    /\ calendar.last.sid = "s1"
    /\ calendar.last.inserted
    /\ calendar.last.crossed
    /\ calendar.email = SessionEmail("s1")

\* C38: each itinerary activity is registered at most once per session; a
\* reply after the last activity was handled registers nothing again.
C38_RegisteredAtMostOnce ==
    \A i, j \in 1..Len(inserted) : inserted[i] = inserted[j] => i = j

(***************************************************************************)
(* Claims about the recommendation handler (SpecRecommendation).           *)
(***************************************************************************)
\* a step in which a turn of process returned
RecommendationReturned ==
    \E p \in Procs :
        recommendation.turn[p].pc = "llm" /\ recommendation'.turn[p].pc = "idle"

C37_Step ==
    RecommendationReturned =>
        LET before == StoredInfo(store["s1"])
            after == StoredInfo(store'["s1"])
            complete == \A f \in RecommendationFields : Truthy(Get(after, f))
        IN /\ recommendation'.last.wrote =>
                  (StepOf(after) = "destination" <=> complete)
           /\ \A f \in RecommendationFields :
                  Truthy(Get(before, f)) => Truthy(Get(after, f))
           /\ StepOf(before) = "destination" => StepOf(after) = "destination"

\* C37: after a preferences-step invocation the stored next_step is
\* 'destination' exactly when the five required fields are non-empty in
\* the stored collected info; a field stored non-empty is never stored
\* empty again; a stored 'destination' never reverts to 'preferences'
\* while the session is not cleared.
C37_SlotFillingMonotone == [][C37_Step]_vars

====
